---- MODULE Spec2Model ----
(***************************************************************************)
(* Model of gotify-to-telegram: the gotify API client (websocket           *)
(* connection manager, application cache, message enrichment), the         *)
(* dispatcher's receive side and the routing of a message to a telegram    *)
(* bot.                                                                    *)
(*                                                                         *)
(* Two revisions of the API client are modelled, selected by "rev":        *)
(*   "api_go"   src/internal/api/api.go  - the client owns its context     *)
(*              (Close cancels it) and reads the socket inline;            *)
(*   "part_008" src/unnamed/part_008     - the context is passed in and    *)
(*              readMessages reads through a reader goroutine.             *)
(***************************************************************************)
EXTENDS Integers, Sequences, FiniteSets, TLC

\* ------------------------------------------------------------------ bounds
MaxSockets == 2      \* successful dials per run
MaxFails   == 2      \* consecutive dial failures the environment produces
MaxFrames  == 1      \* frames the server sends on the websocket
MaxCalls   == 3      \* direct processMessage calls
MaxCloses  == 1      \* external Close() calls
MsgCap     == 1      \* capacity of the messages channel (100 in plugin.go)
MaxAppID   == 2      \* application ids carried by frames are 1..MaxAppID
MaxTime    == 140    \* minutes of wall-clock time explored
MaxConfigs == 1      \* configuration updates per run
MaxRelayFrames == 2  \* frames the server sends while the dispatcher runs
ErrCap     == 1      \* capacity of the error channel (100 in plugin.go)
MaxText    == 2      \* longest text handed to escapeMarkdownV2
MaxParts   == 3      \* pieces a message body is made of
MaxPriority == 9     \* highest message priority
MaxSafeCalls == 2    \* calls of SafeString per run
MaxLoops   == 2      \* dispatcher loops running at a time

\* ------------------------------------------------------- program constants
TTL           == 60     \* cache.New(60*time.Minute, ...)
SweepInterval == 120    \* cache.New(..., 120*time.Minute)
StatusOK      == 200    \* http.StatusOK
DoneCap       == 1      \* done := make(chan struct{}, 1)

Revs     == {"api_go", "part_008"}
AppIDs   == 1..MaxAppID
TickSteps == {20, 60}

\* Application records the server may return (name, description as served;
\* the description of an application may be empty).
AppRecords ==
  { [ID |-> 1, Name |-> "App1", Description |-> "Desc1"],
    [ID |-> 1, Name |-> "App1", Description |-> ""],
    [ID |-> 2, Name |-> "App2", Description |-> "Desc2"] }

\* Bodies of a 200 response to GET /application: lists of at most 2 records.
AppLists ==
  {<<>>} \cup { <<a>> : a \in AppRecords }
         \cup { <<a, b>> : a \in AppRecords, b \in AppRecords }

NoMsg   == [Id |-> 0, AppID |-> 0, AppName |-> "", AppDescription |-> ""]
NoEntry == [app |-> [ID |-> 0, Name |-> "", Description |-> ""], exp |-> -1]

\* A frame decoded by ReadJSON: the wire message has no application name.
Frame(id, appID) ==
  [Id |-> id, AppID |-> appID, AppName |-> "", AppDescription |-> ""]

VARIABLES
  rev,          \* which revision of the client runs
  hostSet,      \* c.serverURL.Host # ""
  tokenSet,     \* c.clientToken # ""
  ctxDone,      \* c.ctx is cancelled
  mu,           \* c.mu: "free" or held by "connect" during the dial
  conn,         \* c.conn: 0 = nil, else the socket id
  isConnected,  \* c.isConnected
  nextSock,     \* id of the next socket a successful dial creates
  clientClosed, \* sockets on which the client called conn.Close()
  broken,       \* sockets whose peer closed or failed
  pc,           \* position of the goroutine running Start (or the caller)
  retPc,        \* where processMessage returns to
  rpc,          \* position of the reader goroutine (part_008)
  rmsg,         \* frame held by the reader goroutine
  pending,      \* msg inside processMessage
  messages,     \* the messages channel (buffered)
  errQ,         \* errors Start put on errChan
  cache,        \* c.cache: app id -> entry
  now,          \* wall clock, minutes
  nextSweep,    \* next run of the cache janitor
  msgSeq,       \* frames read (or direct calls made) so far
  \* history variables
  attempts,     \* dials started in the current connect cycle
  fails,        \* dials failed in the current connect cycle
  delays,       \* retry delays completed after a failed dial, current cycle
  sessionEnd,   \* why readMessages last returned: "readError", "cancel";
                \* "none" from a successful dial until it returns
  closeCalls,   \* Close() calls made
  extCloses,    \* of which external
  closeFrames,  \* close frames written
  closeRet,     \* result of the last Close(): "none", "nil", "err"
  closedOK,     \* a Close returned nil and no dial succeeded since
  idemCloses,   \* Close() calls made while closedOK held
  fetchCount,   \* GET /application requests issued
  lastFetch,    \* outcome of the last request
  lastFetchOK,  \* app id -> time its entry was last stored, -1 = never
  pmRet,        \* result of the last processMessage: "none","nil","err","ctx"
  \* router
  pconfig,      \* p.config (NilConfig before ValidateAndSetConfig)
  routed,       \* last routing decision
  cfgCount,     \* configuration updates so far
  \* environment
  frameLimit,   \* frames the server sends during the run
  \* dispatcher (Plugin.Start) and telegram client (Send)
  dpc,          \* dispatcher: "off", "select", "handling", "exited"
  dmsg,         \* msg taken by the dispatcher's select
  done,         \* signals waiting in p.done (capacity 1)
  parseMode,    \* formatOpts.ParseMode handed to Send
  spc,          \* Send: "idle", "called", "posting", "reporting"
  starg,        \* token and chat id Send was called with
  sendErr,      \* error Send is about to put on errChan
  lastErr,      \* last error Send put on errChan
  resp,         \* last HTTP response makeRequest got
  \* history variables
  posts,        \* HTTP POSTs issued by the current Send call
  sendRes,      \* how the last Send call ended: "none", "ok", "err"
  recvLog,      \* ids of the messages the dispatcher took, in order
  \* router, statement by statement
  cfgErr,       \* what the last ValidateAndSetConfig returned
  rtpc,         \* getTelegramBotConfigForAppID: "idle", "scanned",
                \* "default", "defaultChat"
  rtApp,        \* its appID
  rtBot,        \* its botName
  rtTok,        \* the default token it read
  rtWhole,      \* history: what the configurations that were active during
                \* the call give for rtApp, each taken as a whole
  \* config.Load
  ldpc,         \* "off", "ready" (Load not called yet), "done"
  ldEnv,        \* the process environment
  ldIn,         \* the configuration decoded from the yaml, as passed to Load
  ldOut,        \* the configuration Load returned (ldIn when it returned nil)
  ldErr,        \* the error Load returned, "nil" for none
  \* escapeMarkdownV2
  escpc,        \* "off", "ready" (not called yet), "done", "doneNL"
  escIn,        \* the text it is called with
  escOut,       \* what it returned
  \* the message formatter
  fmpc,         \* "off", "ready" (not called yet), "formatted" (by
                \* formatMessageForTelegram), "formattedV2" (by FormatMessage)
  fmIn,         \* the message and the format options it is called with
  fmOut,        \* the text and the error it returned
  \* Plugin.SafeString
  sfCfg,        \* the configuration SafeString is called on
  sfOut,        \* the string the last call returned
  sfCalls,      \* calls made
  \* Enable and Disable
  loops,        \* dispatcher loops (Plugin.Start goroutines) running
  dis,          \* Disable: "idle", or "signal" (about to send on p.done)
  lastCall      \* history: the last of Enable and Disable that was called,
                \* and the loops running when it was

connVars  == <<ctxDone, mu, conn, isConnected, nextSock, clientClosed, broken>>
closeHist == <<closeCalls, extCloses, closeFrames, closeRet, closedOK,
              idemCloses>>
dialHist  == <<attempts, fails, delays>>
readerVars == <<rpc, rmsg>>
cacheVars == <<cache, fetchCount, lastFetch, lastFetchOK>>
timeVars  == <<now, nextSweep>>
cfgVars   == <<rev, hostSet, tokenSet>>
routerVars == <<pconfig, routed, cfgCount>>
deliveryVars == <<dpc, dmsg, done, parseMode, spc, starg, sendErr, lastErr,
                  resp, posts, sendRes, recvLog>>
\* what the API client and the router never write
raceVars  == <<cfgErr, rtpc, rtApp, rtBot, rtTok, rtWhole>>
loadVars  == <<ldpc, ldEnv, ldIn, ldOut, ldErr>>
escVars   == <<escpc, escIn, escOut>>
fmtVars   == <<fmpc, fmIn, fmOut>>
safeVars  == <<sfCfg, sfOut, sfCalls>>
lifeVars  == <<loops, dis, lastCall>>
extVars   == <<frameLimit, deliveryVars, raceVars, loadVars, escVars, fmtVars, safeVars, lifeVars>>

vars == <<rev, hostSet, tokenSet, ctxDone, mu, conn, isConnected, nextSock,
          clientClosed, broken, pc, retPc, rpc, rmsg, pending, messages, errQ,
          cache, now, nextSweep, msgSeq, attempts, fails, delays, sessionEnd,
          closeCalls, extCloses, closeFrames, closeRet, closedOK, idemCloses,
          fetchCount, lastFetch, lastFetchOK, pmRet, pconfig, routed, cfgCount,
          extVars>>

Alive == pc # "panicked"

\* ------------------------------------------------------------ the cache
\* c.cache.Get: an entry is found unless it is absent or expired; go-cache
\* treats an entry as expired when time.Now() is after its expiration.
CacheFound(k) == cache[k].exp >= 0 /\ ~(now > cache[k].exp)

\* c.cache.SetDefault: store with the default expiration, now + TTL.
CacheSetDefault(k, app) == [cache EXCEPT ![k] = [app |-> app, exp |-> now + TTL]]

\* getApplicationByID: the first application of the list whose ID is id,
\* or the zero record (ID 0) when there is none ("not found").
getApplicationByID_First(list, id) ==
  IF Len(list) > 0 THEN list[1] ELSE NoEntry.app

getApplicationByID(list, id) ==
  IF \E i \in 1..Len(list) : list[i].ID = id
  THEN list[CHOOSE i \in 1..Len(list) :
              /\ list[i].ID = id
              /\ \A j \in 1..(i - 1) : list[j].ID # id]
  ELSE NoEntry.app

Enrich(m, app) ==
  [m EXCEPT !.AppName = app.Name, !.AppDescription = app.Description]

\* processMessage up to the point where it blocks: the cache lookup and, on a
\* miss, the start of the GET /application request.  r is the caller's
\* position to return to.
BeginProcess_NoCache(m, r) ==
  /\ retPc' = r
  /\ pmRet' = "none"
  /\ pending' = m
  /\ pc' = "fetching"
  /\ fetchCount' = fetchCount + 1
  /\ UNCHANGED <<cache, lastFetch, lastFetchOK>>

BeginProcess(m, r) ==
  /\ retPc' = r
  /\ pmRet' = "none"
  /\ IF CacheFound(m.AppID)
     THEN /\ pending' = Enrich(m, cache[m.AppID].app)
          /\ pc' = "sending"
          /\ UNCHANGED fetchCount
     ELSE /\ pending' = m
          /\ pc' = "fetching"
          /\ fetchCount' = fetchCount + 1
  /\ UNCHANGED <<cache, lastFetch, lastFetchOK>>

\* ------------------------------------------------------------ Close
\* The body of Close(), run under c.mu.  closeFails: conn.Close() returns an
\* error (the socket is released either way).
CloseBody_Unchecked(closeFails) ==
  /\ closeCalls' = closeCalls + 1
  /\ ctxDone' = (IF rev = "api_go" THEN TRUE ELSE ctxDone)
  /\ IF conn # 0
     THEN /\ closeFrames' = closeFrames + 1
          /\ clientClosed' = clientClosed \cup {conn}
          /\ isConnected' = (isConnected /\ closeFails)
          /\ closeRet' = (IF closeFails THEN "err" ELSE "nil")
     ELSE /\ UNCHANGED <<closeFrames, clientClosed, isConnected>>
          /\ closeRet' = "nil"
  /\ closedOK' = (closeRet' = "nil")
  /\ idemCloses' = (IF closedOK THEN idemCloses + 1 ELSE idemCloses)
  /\ UNCHANGED <<mu, conn, nextSock, broken>>

CloseBody(closeFails) ==
  /\ closeCalls' = closeCalls + 1
  /\ ctxDone' = (IF rev = "api_go" THEN TRUE ELSE ctxDone)
  /\ IF conn # 0 /\ isConnected
     THEN /\ closeFrames' = closeFrames + 1
          /\ clientClosed' = clientClosed \cup {conn}
          /\ isConnected' = closeFails
          /\ closeRet' = (IF closeFails THEN "err" ELSE "nil")
     ELSE /\ UNCHANGED <<closeFrames, clientClosed, isConnected>>
          /\ closeRet' = "nil"
  /\ closedOK' = (closeRet' = "nil")
  /\ idemCloses' = (IF closedOK THEN idemCloses + 1 ELSE idemCloses)
  /\ UNCHANGED <<mu, conn, nextSock, broken>>

\* conn.Close() on a socket the client already closed returns an error.
CloseOutcomes == IF conn \in clientClosed THEN {TRUE} ELSE BOOLEAN

\* Close() called from outside the client (Plugin.Disable).
ExtClose ==
  /\ Alive
  /\ mu = "free"
  /\ extCloses < MaxCloses
  /\ \E f \in CloseOutcomes : CloseBody(f)
  /\ extCloses' = extCloses + 1
  /\ UNCHANGED <<cfgVars, extVars, pc, retPc, readerVars, pending, messages, errQ,
                 cacheVars, timeVars, msgSeq, dialHist, sessionEnd, pmRet,
                 routerVars>>

\* The context handed to NewClient is cancelled by its owner (part_008).
CancelCtx ==
  /\ Alive
  /\ rev = "part_008"
  /\ ~ctxDone
  /\ ctxDone' = TRUE
  /\ UNCHANGED <<cfgVars, extVars, mu, conn, isConnected, nextSock, clientClosed,
                 broken, pc, retPc, readerVars, pending, messages, errQ,
                 cacheVars, timeVars, msgSeq, dialHist, sessionEnd, closeHist,
                 pmRet, routerVars>>

\* ------------------------------------------------------------ Start
\* Entry of readMessages: api.go installs the pong handler and enters its
\* loop; part_008 starts the reader goroutine and enters its select.
EnterRead ==
  IF rev = "api_go"
  THEN pc' = "readLoop" /\ UNCHANGED readerVars
  ELSE pc' = "select" /\ rpc' = "reading" /\ rmsg' = NoMsg

\* Start, top of the loop, case <-c.ctx.Done(): return.
StartCtxDone ==
  /\ pc = "loop"
  /\ ctxDone
  /\ pc' = "returned"
  /\ UNCHANGED <<cfgVars, extVars, connVars, retPc, readerVars, pending, messages,
                 errQ, cacheVars, timeVars, msgSeq, dialHist, sessionEnd,
                 closeHist, pmRet, routerVars>>

ConnectBegin_DialUnchecked ==
  /\ pc = "loop"
  /\ ~ctxDone
  /\ mu = "free"
  /\ IF isConnected
     THEN /\ EnterRead
          /\ UNCHANGED <<mu, attempts>>
     ELSE /\ pc' = "dialing"
          /\ mu' = "connect"
          /\ attempts' = attempts + 1
          /\ UNCHANGED readerVars
  /\ UNCHANGED <<cfgVars, extVars, ctxDone, conn, isConnected, nextSock, clientClosed,
                 broken, retPc, pending, messages, errQ, cacheVars, timeVars,
                 msgSeq, fails, delays, sessionEnd, closeHist, pmRet,
                 routerVars>>

\* Start, default case: connect() takes c.mu, returns nil when already
\* connected, fails without dialing when host or token is empty, and
\* otherwise starts DialContext while holding c.mu.
ConnectBegin ==
  /\ pc = "loop"
  /\ ~ctxDone
  /\ mu = "free"
  /\ IF isConnected
     THEN /\ EnterRead
          /\ UNCHANGED <<mu, attempts>>
     ELSE IF ~hostSet \/ ~tokenSet
     THEN /\ pc' = "retryWait"
          /\ UNCHANGED <<mu, attempts, readerVars>>
     ELSE /\ pc' = "dialing"
          /\ mu' = "connect"
          /\ attempts' = attempts + 1
          /\ UNCHANGED readerVars
  /\ UNCHANGED <<cfgVars, extVars, ctxDone, conn, isConnected, nextSock, clientClosed,
                 broken, retPc, pending, messages, errQ, cacheVars, timeVars,
                 msgSeq, fails, delays, sessionEnd, closeHist, pmRet,
                 routerVars>>

\* DialContext succeeds: c.conn = conn, c.isConnected = true, unlock; Start
\* goes on to readMessages at once.
DialOK ==
  /\ pc = "dialing"
  /\ ~ctxDone
  /\ nextSock <= MaxSockets
  /\ conn' = nextSock
  /\ nextSock' = nextSock + 1
  /\ isConnected' = TRUE
  /\ mu' = "free"
  /\ closedOK' = FALSE
  /\ sessionEnd' = "none"
  /\ EnterRead
  /\ UNCHANGED <<cfgVars, extVars, ctxDone, clientClosed, broken, retPc, pending,
                 messages, errQ, cacheVars, timeVars, msgSeq, dialHist,
                 closeCalls, extCloses, closeFrames, closeRet, idemCloses,
                 pmRet, routerVars>>

\* DialContext fails (refused, handshake timeout, context cancelled): connect
\* returns the error and Start waits in the retry select.
DialFail_NoDelay ==
  /\ pc = "dialing"
  /\ ctxDone \/ fails < MaxFails
  /\ mu' = "free"
  /\ fails' = fails + 1
  /\ pc' = "loop"
  /\ UNCHANGED <<cfgVars, extVars, ctxDone, conn, isConnected, nextSock, clientClosed,
                 broken, retPc, readerVars, pending, messages, errQ,
                 cacheVars, timeVars, msgSeq, attempts, delays, sessionEnd,
                 closeHist, pmRet, routerVars>>

DialFail ==
  /\ pc = "dialing"
  /\ ctxDone \/ fails < MaxFails
  /\ mu' = "free"
  /\ fails' = fails + 1
  /\ pc' = "retryWait"
  /\ UNCHANGED <<cfgVars, extVars, ctxDone, conn, isConnected, nextSock, clientClosed,
                 broken, retPc, readerVars, pending, messages, errQ,
                 cacheVars, timeVars, msgSeq, attempts, delays, sessionEnd,
                 closeHist, pmRet, routerVars>>

\* Retry select, case <-time.After(5 * time.Second): continue.
RetryTimer ==
  /\ pc = "retryWait"
  /\ delays' = (IF hostSet /\ tokenSet THEN delays + 1 ELSE delays)
  /\ pc' = "loop"
  /\ UNCHANGED <<cfgVars, extVars, connVars, retPc, readerVars, pending, messages,
                 errQ, cacheVars, timeVars, msgSeq, attempts, fails,
                 sessionEnd, closeHist, pmRet, routerVars>>

\* Retry select, case <-c.ctx.Done(): api.go returns; part_008 calls Close()
\* first and reports its error on errChan.
RetryCtxDone ==
  /\ pc = "retryWait"
  /\ ctxDone
  /\ pc' = "returned"
  /\ IF rev = "api_go"
     THEN UNCHANGED <<connVars, closeHist, errQ>>
     ELSE /\ mu = "free"
          /\ \E f \in CloseOutcomes : CloseBody(f)
          /\ errQ' = (IF closeRet' = "err" THEN errQ + 1 ELSE errQ)
          /\ UNCHANGED extCloses
  /\ UNCHANGED <<cfgVars, extVars, retPc, readerVars, pending, messages, cacheVars,
                 timeVars, msgSeq, dialHist, sessionEnd, pmRet, routerVars>>

\* After readMessages returned: lock, c.isConnected = false, unlock, loop.
Reset ==
  /\ pc = "reset"
  /\ mu = "free"
  /\ isConnected' = FALSE
  /\ pc' = "loop"
  /\ attempts' = 0 /\ fails' = 0 /\ delays' = 0
  /\ UNCHANGED <<cfgVars, extVars, ctxDone, mu, conn, nextSock, clientClosed, broken,
                 retPc, readerVars, pending, messages, errQ, cacheVars,
                 timeVars, msgSeq, sessionEnd, closeHist, pmRet, routerVars>>

\* ---------------------------------------------------- readMessages, api.go
\* Top of the read loop, case <-c.ctx.Done(): return context.Canceled.
ReadLoopCtxDone ==
  /\ pc = "readLoop"
  /\ ctxDone
  /\ sessionEnd' = "cancel"
  /\ pc' = "reset"
  /\ UNCHANGED <<cfgVars, extVars, connVars, retPc, readerVars, pending, messages,
                 errQ, cacheVars, timeVars, msgSeq, dialHist, closeHist,
                 pmRet, routerVars>>

\* Top of the read loop, default case: block in c.conn.ReadJSON.
ReadLoopEnter ==
  /\ pc = "readLoop"
  /\ ~ctxDone
  /\ pc' = "reading"
  /\ UNCHANGED <<cfgVars, extVars, connVars, retPc, readerVars, pending, messages,
                 errQ, cacheVars, timeVars, msgSeq, dialHist, sessionEnd,
                 closeHist, pmRet, routerVars>>

SocketDead(s) == s \in clientClosed \cup broken

\* ReadJSON returns a frame; processMessage starts.
ReadFrame ==
  /\ pc = "reading"
  /\ ~SocketDead(conn)
  /\ msgSeq < frameLimit
  /\ \E a \in AppIDs : BeginProcess(Frame(msgSeq + 1, a), "readLoop")
  /\ msgSeq' = msgSeq + 1
  /\ UNCHANGED <<cfgVars, extVars, connVars, readerVars, messages, errQ, timeVars,
                 dialHist, sessionEnd, closeHist, routerVars>>

\* ReadJSON returns an error: c.isConnected = false under c.mu, and
\* readMessages returns the error to Start.
ReadError_Fatal ==
  /\ pc = "reading"
  /\ SocketDead(conn)
  /\ mu = "free"
  /\ isConnected' = FALSE
  /\ sessionEnd' = "readError"
  /\ pc' = "returned"
  /\ UNCHANGED <<cfgVars, extVars, ctxDone, mu, conn, nextSock, clientClosed, broken,
                 retPc, readerVars, pending, messages, errQ, cacheVars,
                 timeVars, msgSeq, dialHist, closeHist, pmRet, routerVars>>

ReadError ==
  /\ pc = "reading"
  /\ SocketDead(conn)
  /\ mu = "free"
  /\ isConnected' = FALSE
  /\ sessionEnd' = "readError"
  /\ pc' = "reset"
  /\ UNCHANGED <<cfgVars, extVars, ctxDone, mu, conn, nextSock, clientClosed, broken,
                 retPc, readerVars, pending, messages, errQ, cacheVars,
                 timeVars, msgSeq, dialHist, closeHist, pmRet, routerVars>>

\* -------------------------------------------------- readMessages, part_008
\* Reader goroutine: ReadJSON returns a frame, to be sent on msgChan.
ReaderRead ==
  /\ Alive
  /\ rpc = "reading"
  /\ ~SocketDead(conn)
  /\ msgSeq < frameLimit
  /\ \E a \in AppIDs : rmsg' = Frame(msgSeq + 1, a)
  /\ msgSeq' = msgSeq + 1
  /\ rpc' = "sendMsg"
  /\ UNCHANGED <<cfgVars, extVars, connVars, pc, retPc, pending, messages, errQ,
                 cacheVars, timeVars, dialHist, sessionEnd, closeHist, pmRet,
                 routerVars>>

\* Reader goroutine: ReadJSON returns an error; c.isConnected = false under
\* c.mu, then the error is to be sent on errChan.
ReaderError ==
  /\ Alive
  /\ rpc = "reading"
  /\ SocketDead(conn)
  /\ mu = "free"
  /\ isConnected' = FALSE
  /\ rpc' = "sendErr"
  /\ UNCHANGED <<cfgVars, extVars, ctxDone, mu, conn, nextSock, clientClosed, broken,
                 pc, retPc, rmsg, pending, messages, errQ, cacheVars,
                 timeVars, msgSeq, dialHist, sessionEnd, closeHist, pmRet,
                 routerVars>>

\* Select, case <-c.ctx.Done(): Close() and return c.ctx.Err().
SelectCtxDone ==
  /\ pc = "select"
  /\ ctxDone
  /\ mu = "free"
  /\ \E f \in CloseOutcomes : CloseBody(f)
  /\ sessionEnd' = "cancel"
  /\ pc' = "reset"
  /\ UNCHANGED <<cfgVars, extVars, extCloses, retPc, readerVars, pending, messages,
                 errQ, cacheVars, timeVars, msgSeq, dialHist, pmRet,
                 routerVars>>

\* Select, case err := <-errChan: the reader goroutine's send completes and
\* it returns; readMessages returns the error.
SelectErr ==
  /\ pc = "select"
  /\ rpc = "sendErr"
  /\ rpc' = "done"
  /\ sessionEnd' = "readError"
  /\ pc' = "reset"
  /\ UNCHANGED <<cfgVars, extVars, connVars, retPc, rmsg, pending, messages, errQ,
                 cacheVars, timeVars, msgSeq, dialHist, closeHist, pmRet,
                 routerVars>>

\* Select, case msg := <-msgChan: the reader goroutine goes back to ReadJSON
\* and processMessage starts.
SelectMsg ==
  /\ pc = "select"
  /\ rpc = "sendMsg"
  /\ rpc' = "reading"
  /\ rmsg' = NoMsg
  /\ BeginProcess(rmsg, "select")
  /\ UNCHANGED <<cfgVars, extVars, connVars, messages, errQ, timeVars, msgSeq,
                 dialHist, sessionEnd, closeHist, routerVars>>

\* ------------------------------------------------- processMessage, the rest
\* GET /application fails in http.DefaultClient.Do ("neterr") or the body
\* does not decode ("decode"): getApplications returns the error and
\* processMessage returns "failed to get application".
FetchError ==
  /\ pc = "fetching"
  /\ \E kind \in {"neterr", "decode"} : lastFetch' = kind
  /\ pmRet' = "err"
  /\ pending' = NoMsg
  /\ pc' = retPc
  /\ UNCHANGED <<cfgVars, extVars, connVars, retPc, readerVars, messages, errQ, cache,
                 fetchCount, lastFetchOK, timeVars, msgSeq, dialHist,
                 sessionEnd, closeHist, routerVars>>

\* GET /application is answered with a status other than 200: makeRequest
\* returns (nil, nil), and getApplications evaluates res.Body on the nil
\* response in its defer statement: nil pointer dereference, the process
\* panics.
FetchNon200 ==
  /\ pc = "fetching"
  /\ lastFetch' = "status"
  /\ pc' = "panicked"
  /\ UNCHANGED <<cfgVars, extVars, connVars, retPc, readerVars, pending, messages,
                 errQ, cache, fetchCount, lastFetchOK, timeVars, msgSeq,
                 dialHist, sessionEnd, closeHist, pmRet, routerVars>>

\* GET /application returns a list: getApplicationByID picks the application,
\* it is stored in the cache and copied into the message; without a match
\* processMessage returns the "not found" error.
FetchList ==
  /\ pc = "fetching"
  /\ \E list \in AppLists :
       LET app == getApplicationByID(list, pending.AppID) IN
       IF app.ID = 0
       THEN /\ lastFetch' = "notfound"
            /\ pmRet' = "err"
            /\ pending' = NoMsg
            /\ pc' = retPc
            /\ UNCHANGED <<cache, lastFetchOK>>
       ELSE /\ lastFetch' = "found"
            /\ cache' = CacheSetDefault(pending.AppID, app)
            /\ lastFetchOK' = [lastFetchOK EXCEPT ![pending.AppID] = now]
            /\ pending' = Enrich(pending, app)
            /\ pc' = "sending"
            /\ UNCHANGED pmRet
  /\ UNCHANGED <<cfgVars, extVars, connVars, retPc, readerVars, messages, errQ,
                 fetchCount, timeVars, msgSeq, dialHist, sessionEnd,
                 closeHist, routerVars>>

\* Final select, case <-c.ctx.Done(): return c.ctx.Err().
SendCtxDone ==
  /\ pc = "sending"
  /\ ctxDone
  /\ pmRet' = "ctx"
  /\ pending' = NoMsg
  /\ pc' = retPc
  /\ UNCHANGED <<cfgVars, extVars, connVars, retPc, readerVars, messages, errQ,
                 cacheVars, timeVars, msgSeq, dialHist, sessionEnd,
                 closeHist, routerVars>>

\* Final select, case c.messages <- msg: possible while the channel has room.
SendMsg_Again ==
  /\ pc = "sending"
  /\ Len(messages) < MsgCap
  /\ messages' = Append(messages, pending)
  /\ pmRet' = "nil"
  /\ UNCHANGED <<cfgVars, extVars, connVars, pc, retPc, readerVars, pending,
                 errQ, cacheVars, timeVars, msgSeq, dialHist, sessionEnd,
                 closeHist, routerVars>>

SendMsg_NoRoom ==
  /\ pc = "sending"
  /\ messages' = Append(messages, pending)
  /\ pmRet' = "nil"
  /\ pending' = NoMsg
  /\ pc' = retPc
  /\ UNCHANGED <<cfgVars, extVars, connVars, retPc, readerVars, errQ, cacheVars,
                 timeVars, msgSeq, dialHist, sessionEnd, closeHist,
                 routerVars>>

SendMsg ==
  /\ pc = "sending"
  /\ Len(messages) < MsgCap
  /\ messages' = Append(messages, pending)
  /\ pmRet' = "nil"
  /\ pending' = NoMsg
  /\ pc' = retPc
  /\ UNCHANGED <<cfgVars, extVars, connVars, retPc, readerVars, errQ, cacheVars,
                 timeVars, msgSeq, dialHist, sessionEnd, closeHist,
                 routerVars>>

\* ------------------------------------------------------------ environment
\* Plugin.Start, case msg := <-p.messages: the dispatcher takes a message.
DispatcherRecv ==
  /\ Alive
  /\ messages # <<>>
  /\ messages' = Tail(messages)
  /\ UNCHANGED <<cfgVars, extVars, connVars, pc, retPc, readerVars, pending, errQ,
                 cacheVars, timeVars, msgSeq, dialHist, sessionEnd,
                 closeHist, pmRet, routerVars>>

\* The peer closes the socket or the network fails.
ServerBreak ==
  /\ Alive
  /\ conn # 0
  /\ ~SocketDead(conn)
  /\ broken' = broken \cup {conn}
  /\ UNCHANGED <<cfgVars, extVars, ctxDone, mu, conn, isConnected, nextSock,
                 clientClosed, pc, retPc, readerVars, pending, messages, errQ,
                 cacheVars, timeVars, msgSeq, dialHist, sessionEnd,
                 closeHist, pmRet, routerVars>>

\* Wall-clock time passes.
Tick ==
  /\ Alive
  /\ \E d \in TickSteps : now + d <= MaxTime /\ now' = now + d
  /\ UNCHANGED <<cfgVars, extVars, connVars, pc, retPc, readerVars, pending, messages,
                 errQ, cacheVars, nextSweep, msgSeq, dialHist, sessionEnd,
                 closeHist, pmRet, routerVars>>

\* The janitor of go-cache runs every SweepInterval and deletes the expired
\* entries.
JanitorSweep ==
  /\ Alive
  /\ now >= nextSweep
  /\ nextSweep' = nextSweep + SweepInterval
  /\ cache' = [k \in AppIDs |->
                 IF cache[k].exp >= 0 /\ now > cache[k].exp
                 THEN NoEntry ELSE cache[k]]
  /\ UNCHANGED <<cfgVars, extVars, connVars, pc, retPc, readerVars, pending, messages,
                 errQ, fetchCount, lastFetch, lastFetchOK, now, msgSeq,
                 dialHist, sessionEnd, closeHist, pmRet, routerVars>>

\* processMessage called directly on a client (as the tests do), one call at
\* a time.
CallProcessMessage ==
  /\ pc = "idle"
  /\ msgSeq < MaxCalls
  /\ \E a \in AppIDs : BeginProcess(Frame(msgSeq + 1, a), "idle")
  /\ msgSeq' = msgSeq + 1
  /\ UNCHANGED <<cfgVars, extVars, connVars, readerVars, messages, errQ, timeVars,
                 dialHist, sessionEnd, closeHist, routerVars>>

\* ------------------------------------------------------------ initial state
\* NewClient: empty cache, no connection, context live.
ClientInit ==
  /\ rev \in Revs
  /\ ctxDone = FALSE
  /\ mu = "free"
  /\ conn = 0
  /\ isConnected = FALSE
  /\ nextSock = 1
  /\ clientClosed = {}
  /\ broken = {}
  /\ rpc = "none"
  /\ rmsg = NoMsg
  /\ pending = NoMsg
  /\ messages = <<>>
  /\ errQ = 0
  /\ cache = [k \in AppIDs |-> NoEntry]
  /\ now = 0
  /\ nextSweep = SweepInterval
  /\ msgSeq = 0
  /\ attempts = 0 /\ fails = 0 /\ delays = 0
  /\ sessionEnd = "none"
  /\ closeCalls = 0 /\ extCloses = 0 /\ closeFrames = 0
  /\ closeRet = "none"
  /\ closedOK = FALSE
  /\ idemCloses = 0
  /\ fetchCount = 0
  /\ lastFetch = "none"
  /\ lastFetchOK = [k \in AppIDs |-> -1]
  /\ pmRet = "none"

RouterIdle ==
  /\ pconfig = [DefaultBotToken |-> "", DefaultChatID |-> "", Hostname |-> "",
                Bots |-> <<>>, Rules |-> <<>>]
  /\ routed = [appID |-> 0, result |-> [Token |-> "", ChatID |-> ""]]
  /\ cfgCount = 0

NoTarget == [Token |-> "", ChatID |-> ""]
NoErr    == [kind |-> "none", status |-> 0, body |-> ""]
NoResp   == [status |-> 0, body |-> "", readable |-> TRUE]

\* No dispatcher loop runs and Send is not called.
DeliveryIdle ==
  /\ dpc = "off"
  /\ dmsg = NoMsg
  /\ done = 0
  /\ parseMode = "MarkdownV2"
  /\ spc = "idle"
  /\ starg = NoTarget
  /\ sendErr = NoErr
  /\ lastErr = NoErr
  /\ resp = NoResp
  /\ posts = 0
  /\ sendRes = "none"
  /\ recvLog = <<>>

\* No routing decision is in progress.
RouterAtRest ==
  /\ cfgErr = "none"
  /\ rtpc = "idle"
  /\ rtApp = 0
  /\ rtBot = ""
  /\ rtTok = ""
  /\ rtWhole = {}

\* config.Plugin with the fields Load and Validate look at: one field of
\* each kind that has an environment variable.  A chat id is a sequence of
\* characters, Url is represented by its hostname ("nil" while unset).
NoPlugin ==
  [IgnoreEnvVars |-> FALSE, LogLevel |-> "", IncludeExtras |-> FALSE,
   PriorityThreshold |-> 0, RawUrl |-> "", Url |-> "nil", ClientToken |-> "",
   DefaultBotToken |-> "", DefaultChatIDs |-> <<>>]

\* An environment variable that is not set.
Unset    == [set |-> FALSE, val |-> ""]
UnsetSeq == [set |-> FALSE, val |-> <<>>]
\* config.Load is not in use.
LoadIdle ==
  /\ ldpc = "off"
  /\ ldEnv = [LogLevel |-> Unset, IncludeExtras |-> Unset,
              PriorityThreshold |-> Unset, RawUrl |-> Unset,
              DefaultBotToken |-> Unset, DefaultChatIDs |-> UnsetSeq]
  /\ ldIn = NoPlugin
  /\ ldOut = NoPlugin
  /\ ldErr = "none"

\* escapeMarkdownV2 is not in use.
EscIdle == escpc = "off" /\ escIn = <<>> /\ escOut = <<>>
\* The message formatter is not in use.
FmtIdle == fmpc = "off" /\ fmIn = <<>> /\ fmOut = <<>>

\* SafeString is not called.
SafeIdle == sfCfg = <<>> /\ sfOut = <<>> /\ sfCalls = 0

\* Neither Enable nor Disable has been called.
LifeIdle ==
  loops = 0 /\ dis = "idle" /\ lastCall = [op |-> "none", loops |-> 0]

ExtIdle ==
  /\ frameLimit = MaxFrames
  /\ DeliveryIdle
  /\ RouterAtRest
  /\ LoadIdle
  /\ EscIdle
  /\ FmtIdle
  /\ SafeIdle
  /\ LifeIdle

\* The plugin runs "go p.apiclient.Start()".
Init ==
  /\ ClientInit
  /\ RouterIdle
  /\ ExtIdle
  /\ hostSet \in BOOLEAN
  /\ tokenSet \in BOOLEAN
  /\ pc = "loop"
  /\ retPc = "loop"

Next ==
  \/ StartCtxDone \/ ConnectBegin \/ DialOK \/ DialFail \/ RetryTimer
  \/ RetryCtxDone \/ Reset
  \/ ReadLoopCtxDone \/ ReadLoopEnter \/ ReadFrame \/ ReadError
  \/ ReaderRead \/ ReaderError \/ SelectCtxDone \/ SelectErr \/ SelectMsg
  \/ FetchError \/ FetchNon200 \/ FetchList \/ SendCtxDone \/ SendMsg
  \/ ExtClose \/ CancelCtx \/ ServerBreak \/ DispatcherRecv

Spec == Init /\ [][Next]_vars

\* The API client alone on a server that sends MaxRelayFrames frames, with
\* the dispatcher taking messages off the channel whenever it chooses.
BackpressureInit ==
  /\ ClientInit
  /\ RouterIdle
  /\ frameLimit = MaxRelayFrames
  /\ DeliveryIdle
  /\ RouterAtRest
  /\ LoadIdle
  /\ EscIdle
  /\ FmtIdle
  /\ SafeIdle
  /\ LifeIdle
  /\ hostSet = TRUE
  /\ tokenSet = TRUE
  /\ pc = "loop"
  /\ retPc = "loop"

\* Every dial succeeds and the server keeps the connection up; Close and
\* the cancellation of the context come from outside.
BackpressureNext ==
  \/ StartCtxDone \/ ConnectBegin \/ DialOK \/ Reset
  \/ ReadLoopCtxDone \/ ReadLoopEnter \/ ReadFrame \/ ReadError
  \/ ReaderRead \/ ReaderError \/ SelectCtxDone \/ SelectErr \/ SelectMsg
  \/ FetchError \/ FetchNon200 \/ FetchList \/ SendCtxDone \/ SendMsg
  \/ ExtClose \/ CancelCtx \/ DispatcherRecv

BackpressureSpec == BackpressureInit /\ [][BackpressureNext]_vars

\* Goroutines that can take a step are scheduled; a dial and the retry timer
\* return within their timeouts; a read on a dead socket returns.  No
\* fairness for what the environment chooses to do (Close, cancellation,
\* frames, failures).
Fairness ==
  /\ WF_vars(StartCtxDone) /\ WF_vars(ConnectBegin)
  /\ WF_vars(DialOK \/ DialFail)
  /\ WF_vars(RetryTimer \/ RetryCtxDone)
  /\ WF_vars(Reset) /\ WF_vars(ReadLoopCtxDone) /\ WF_vars(ReadLoopEnter)
  /\ WF_vars(ReadError) /\ WF_vars(ReaderError)
  /\ WF_vars(SelectCtxDone \/ SelectErr \/ SelectMsg)
  /\ WF_vars(FetchError \/ FetchNon200 \/ FetchList)
  /\ WF_vars(SendCtxDone \/ SendMsg)
  /\ WF_vars(DispatcherRecv)

FairSpec == Spec /\ Fairness

\* A client driven by direct processMessage calls while time passes.
CacheInit ==
  /\ ClientInit
  /\ RouterIdle
  /\ ExtIdle
  /\ hostSet = TRUE
  /\ tokenSet = TRUE
  /\ pc = "idle"
  /\ retPc = "idle"

CacheNext ==
  \/ CallProcessMessage
  \/ FetchError \/ FetchNon200 \/ FetchList \/ SendCtxDone \/ SendMsg
  \/ ExtClose \/ CancelCtx \/ DispatcherRecv \/ Tick \/ JanitorSweep

CacheSpec == CacheInit /\ [][CacheNext]_vars

TypeOK ==
  /\ rev \in Revs
  /\ conn \in 0..MaxSockets
  /\ pc \in {"loop", "dialing", "retryWait", "readLoop", "reading", "select",
             "fetching", "sending", "reset", "returned", "panicked", "idle"}
  /\ rpc \in {"none", "reading", "sendMsg", "sendErr", "done"}
  /\ Len(messages) <= MsgCap
  /\ mu \in {"free", "connect"}
  /\ (mu = "connect") = (pc = "dialing")

\* ------------------------------------------------------------ the router
BotNames   == {"", "a", "b"}
AppIDLists == {<<1>>, <<2>>, <<1, 2>>}

BotConfigOf(n) ==
  CASE n = ""  -> [Token |-> "T0", ChatID |-> "C0"]
    [] n = "a" -> [Token |-> "TA", ChatID |-> "CA"]
    [] OTHER   -> [Token |-> "TB", ChatID |-> "CB"]

RoutingRules == [AppIDs : AppIDLists, BotName : BotNames]

\* p.config.Rules: no rule, one rule or two rules.
RuleLists ==
  {<<>>} \cup { <<r>> : r \in RoutingRules }
         \cup { <<r, q>> : r \in RoutingRules, q \in RoutingRules }

\* Configurations that pass ValidateAndSetConfig: default token, default chat
\* id and hostname are set.
Configs ==
  { [DefaultBotToken |-> "TD", DefaultChatID |-> "CD", Hostname |-> "gotify",
     Bots |-> [n \in B |-> BotConfigOf(n)], Rules |-> R] :
       B \in SUBSET BotNames, R \in RuleLists }

\* Configurations the user may submit: the valid ones, and one with each of
\* the required fields left empty.
Candidates ==
  Configs \cup
  { [DefaultBotToken |-> t, DefaultChatID |-> c, Hostname |-> h,
     Bots |-> <<>>, Rules |-> <<>>] :
       t \in {"", "TD"}, c \in {"", "CD"}, h \in {"", "gotify"} }

\* rule.AppIDs contains appID (the inner loop of the router).
RuleMatches(rule, appID) ==
  \E j \in 1..Len(rule.AppIDs) : rule.AppIDs[j] = appID

\* The loops of getTelegramBotConfigForAppID: botName starts empty and every
\* matching rule, in order, overwrites it.
RECURSIVE ScanRules_First(_, _, _, _)
ScanRules_First(rules, i, appID, botName) ==
  IF i > Len(rules) THEN botName
  ELSE IF RuleMatches(rules[i], appID) THEN rules[i].BotName
  ELSE ScanRules_First(rules, i + 1, appID, botName)

RECURSIVE ScanRules(_, _, _, _)
ScanRules(rules, i, appID, botName) ==
  IF i > Len(rules) THEN botName
  ELSE ScanRules(rules, i + 1, appID,
                 IF RuleMatches(rules[i], appID)
                 THEN rules[i].BotName ELSE botName)

\* p.config before the first ValidateAndSetConfig (a nil pointer), the
\* routing result before any message, and the one of a router that panicked.
NilConfig  == [DefaultBotToken |-> "", DefaultChatID |-> "", Hostname |-> "",
               Bots |-> <<>>, Rules |-> <<>>]
NoRoute    == [appID |-> 0, result |-> [Token |-> "", ChatID |-> ""]]
PanicRoute == [appID |-> -1, result |-> [Token |-> "", ChatID |-> ""]]

DefaultTarget(cfg) ==
  [Token |-> cfg.DefaultBotToken, ChatID |-> cfg.DefaultChatID]

\* getTelegramBotConfigForAppID with p.config set.
getTelegramBotConfigForAppID(cfg, appID) ==
  LET botName == ScanRules(cfg.Rules, 1, appID, "") IN
  IF botName \in DOMAIN cfg.Bots
  THEN cfg.Bots[botName]
  ELSE DefaultTarget(cfg)

\* The checks of ValidateAndSetConfig, in order: the error returned, "nil"
\* when the configuration is accepted.  (gotify always passes the type that
\* DefaultConfig returned, so the type assertion succeeds.)
ConfigError(c) ==
  IF c.DefaultBotToken = "" THEN "telegram.default_bot_token is required"
  ELSE IF c.DefaultChatID = "" THEN "telegram.default_chat_id is required"
  ELSE IF c.Hostname = "" THEN "gotify_server.hostname is required"
  ELSE "nil"

\* ValidateAndSetConfig: return the error of the first failed check, else
\* p.config = c.  It runs on gotify's goroutine, whatever the router does.
ValidateAndSetConfig ==
  /\ routed # PanicRoute
  /\ cfgCount < MaxConfigs
  /\ \E c \in Candidates :
       /\ cfgErr' = ConfigError(c)
       /\ pconfig' = IF ConfigError(c) = "nil" THEN c ELSE pconfig
       /\ rtWhole' = IF rtpc # "idle" /\ ConfigError(c) = "nil"
                     THEN rtWhole \cup
                          {getTelegramBotConfigForAppID(c, rtApp)}
                     ELSE rtWhole
  /\ cfgCount' = cfgCount + 1
  /\ routed' = NoRoute
  /\ UNCHANGED <<cfgVars, frameLimit, deliveryVars, rtpc, rtApp, rtBot, rtTok,
                 loadVars, escVars, fmtVars, safeVars, lifeVars, connVars, pc, retPc, readerVars, pending, messages,
                 errQ, cacheVars, timeVars, msgSeq, dialHist, sessionEnd,
                 closeHist, pmRet>>

\* handleMessage: route the message by its app id, on a configuration that
\* is not replaced meanwhile.  With p.config nil the router dereferences it
\* after the guarded loop and panics.
HandleMessage ==
  /\ routed # PanicRoute
  /\ rtpc = "idle"
  /\ \E id \in AppIDs :
       routed' = IF pconfig = NilConfig THEN PanicRoute
                 ELSE [appID |-> id,
                       result |-> getTelegramBotConfigForAppID(pconfig, id)]
  /\ UNCHANGED <<cfgVars, extVars, connVars, pc, retPc, readerVars, pending,
                 messages, errQ, cacheVars, timeVars, msgSeq, dialHist,
                 sessionEnd, closeHist, pmRet, pconfig, cfgCount>>

\* The statements of getTelegramBotConfigForAppID, each reading p.config
\* anew.  First the loops over p.config.Rules (skipped when p.config is
\* nil).
RouteScan ==
  /\ routed # PanicRoute
  /\ rtpc = "idle"
  /\ \E id \in AppIDs :
       /\ rtApp' = id
       /\ rtBot' = IF pconfig = NilConfig THEN ""
                   ELSE ScanRules(pconfig.Rules, 1, id, "")
       /\ rtWhole' = IF pconfig = NilConfig THEN {}
                     ELSE {getTelegramBotConfigForAppID(pconfig, id)}
  /\ rtpc' = "scanned"
  /\ UNCHANGED <<cfgVars, frameLimit, deliveryVars, loadVars, escVars, fmtVars, safeVars, lifeVars, cfgErr, rtTok,
                 connVars, pc, retPc, readerVars, pending, messages,
                 errQ, cacheVars, timeVars, msgSeq, dialHist, sessionEnd,
                 closeHist, pmRet, routerVars>>

\* botConfig, exists := p.config.TelegramConfig.Bots[botName]; return
\* botConfig when it exists.
RouteLookup ==
  /\ rtpc = "scanned"
  /\ IF pconfig = NilConfig
     THEN routed' = PanicRoute /\ rtpc' = "idle"
     ELSE IF rtBot \in DOMAIN pconfig.Bots
     THEN /\ routed' = [appID |-> rtApp, result |-> pconfig.Bots[rtBot]]
          /\ rtpc' = "idle"
     ELSE /\ rtpc' = "default"
          /\ UNCHANGED routed
  /\ UNCHANGED <<cfgVars, frameLimit, deliveryVars, loadVars, escVars, fmtVars, safeVars, lifeVars, cfgErr, rtApp, rtBot,
                 rtTok, rtWhole, connVars, pc, retPc, readerVars, pending,
                 messages, errQ, cacheVars, timeVars, msgSeq, dialHist,
                 sessionEnd, closeHist, pmRet, pconfig, cfgCount>>

\* Token: p.config.TelegramConfig.DefaultBotToken
RouteDefaultToken ==
  /\ rtpc = "default"
  /\ rtTok' = pconfig.DefaultBotToken
  /\ rtpc' = "defaultChat"
  /\ UNCHANGED <<cfgVars, frameLimit, deliveryVars, loadVars, escVars, fmtVars, safeVars, lifeVars, cfgErr, rtApp, rtBot,
                 rtWhole, connVars, pc, retPc, readerVars, pending,
                 messages, errQ, cacheVars, timeVars, msgSeq, dialHist,
                 sessionEnd, closeHist, pmRet, routerVars>>

\* ChatID: p.config.TelegramConfig.DefaultChatID; return.
RouteDefaultChat ==
  /\ rtpc = "defaultChat"
  /\ routed' = [appID |-> rtApp,
                result |-> [Token |-> rtTok, ChatID |-> pconfig.DefaultChatID]]
  /\ rtpc' = "idle"
  /\ UNCHANGED <<cfgVars, frameLimit, deliveryVars, loadVars, escVars, fmtVars, safeVars, lifeVars, cfgErr, rtApp, rtBot,
                 rtTok, rtWhole, connVars, pc, retPc, readerVars, pending,
                 messages, errQ, cacheVars, timeVars, msgSeq, dialHist,
                 sessionEnd, closeHist, pmRet, pconfig, cfgCount>>

RouterInit ==
  /\ ClientInit
  /\ ExtIdle
  /\ RouterIdle
  /\ hostSet = TRUE
  /\ tokenSet = TRUE
  /\ pc = "idle"
  /\ retPc = "idle"

RouterNext == ValidateAndSetConfig \/ HandleMessage

RouterSpec == RouterInit /\ [][RouterNext]_vars

\* A configured plugin whose configuration the user replaces once more while
\* messages are being routed.
RaceConfigs == { c \in Configs : Len(c.Rules) = 1 }

RaceInit ==
  /\ ClientInit
  /\ ExtIdle
  /\ hostSet = TRUE
  /\ tokenSet = TRUE
  /\ pc = "idle"
  /\ retPc = "idle"
  /\ pconfig \in RaceConfigs
  /\ routed = NoRoute
  /\ cfgCount = MaxConfigs - 1

RaceNext ==
  \/ ValidateAndSetConfig
  \/ RouteScan \/ RouteLookup \/ RouteDefaultToken \/ RouteDefaultChat

RaceSpec == RaceInit /\ [][RaceNext]_vars

\* ------------------------------------------- dispatcher and telegram client
\* What the dispatcher and Send never write.
clientVars == <<cfgVars, connVars, retPc, readerVars, pending, cacheVars,
                timeVars, msgSeq, dialHist, sessionEnd, closeHist, pmRet,
                routerVars, frameLimit, raceVars, loadVars, escVars, fmtVars, safeVars, lifeVars>>

ParseModes == {"MarkdownV2", "HTML"}

\* FormatMessage fails for every parse mode but MarkdownV2.
FormatMessageOK(mode) == mode = "MarkdownV2"

\* Bot tokens of the configurations explored: none, a well-formed one, and
\* one with a stray percent sign.
Tokens == {"", "TA", "T%"}

\* http.NewRequest parses the endpoint "https://api.telegram.org/bot" +
\* token + "/sendMessage" and fails on a malformed URL; "%/s" is an invalid
\* escape.
NewRequestOK(token) == token # "T%"

\* Responses of the telegram API: status, body, and whether reading the body
\* succeeds.
Responses ==
  { [status |-> st, body |-> IF st = StatusOK THEN "ok" ELSE "bad",
     readable |-> rd] : st \in {StatusOK, 400, 500}, rd \in BOOLEAN }

\* Configurations the dispatcher runs with: app 1 goes to bot "a", whose
\* token and chat id are whatever the user typed; everything else goes to
\* the default target.
DeliveryConfigs ==
  { [DefaultBotToken |-> "TD", DefaultChatID |-> "CD", Hostname |-> "gotify",
     Bots |-> [n \in {"a"} |-> [Token |-> t, ChatID |-> c]],
     Rules |-> << [AppIDs |-> <<1>>, BotName |-> "a"] >>] :
       t \in Tokens, c \in {"", "CA"} }

\* Plugin.Start, case <-p.done: return nil.
DispDone ==
  /\ Alive
  /\ dpc = "select"
  /\ done > 0
  /\ done' = done - 1
  /\ dpc' = "exited"
  /\ UNCHANGED <<clientVars, pc, messages, errQ, dmsg, parseMode, spc, starg,
                 sendErr, lastErr, resp, posts, sendRes, recvLog>>

\* Plugin.Start, case err := <-p.errChan: the error is logged.
DispErr_Fatal ==
  /\ Alive
  /\ dpc = "select"
  /\ errQ > 0
  /\ errQ' = errQ - 1
  /\ dpc' = "exited"
  /\ UNCHANGED <<clientVars, pc, messages, dmsg, done, parseMode, spc, starg,
                 sendErr, lastErr, resp, posts, sendRes, recvLog>>

DispErr ==
  /\ Alive
  /\ dpc = "select"
  /\ errQ > 0
  /\ errQ' = errQ - 1
  /\ UNCHANGED <<clientVars, pc, messages, deliveryVars>>

\* Plugin.Start, case msg := <-p.messages: handleMessage(msg) routes the
\* message and calls Send; the loop continues when Send has returned.  With
\* p.config nil the router panics.
DispMsg ==
  /\ Alive
  /\ dpc = "select"
  /\ messages # <<>>
  /\ messages' = Tail(messages)
  /\ IF pconfig = NilConfig
     THEN /\ pc' = "panicked"
          /\ UNCHANGED deliveryVars
     ELSE /\ dmsg' = Head(messages)
          /\ starg' = getTelegramBotConfigForAppID(pconfig,
                                                   Head(messages).AppID)
          /\ dpc' = "handling"
          /\ spc' = "called"
          /\ posts' = 0
          /\ sendRes' = "none"
          /\ recvLog' = Append(recvLog, Head(messages).Id)
          /\ resp' = NoResp
          /\ UNCHANGED <<pc, done, parseMode, sendErr, lastErr>>
  /\ UNCHANGED <<clientVars, errQ>>

\* The error of the first check of Send that fails, NoErr when all pass:
\* token, chat id, FormatMessage, then http.NewRequest in makeRequest.
\* (json.Marshal of a payload of three strings does not fail.)
SendCheck_NoChatCheck(token, chatID, mode) ==
  IF token = "" THEN [NoErr EXCEPT !.kind = "telegram bot token is empty"]
  ELSE IF ~FormatMessageOK(mode)
  THEN [NoErr EXCEPT !.kind = "failed to format message"]
  ELSE IF ~NewRequestOK(token)
  THEN [NoErr EXCEPT !.kind = "failed to create request"]
  ELSE NoErr

SendCheck_NoFormatCheck(token, chatID, mode) ==
  IF token = "" THEN [NoErr EXCEPT !.kind = "telegram bot token is empty"]
  ELSE IF chatID = ""
  THEN [NoErr EXCEPT !.kind = "telegram chat ID is empty"]
  ELSE IF ~NewRequestOK(token)
  THEN [NoErr EXCEPT !.kind = "failed to create request"]
  ELSE NoErr

SendCheck(token, chatID, mode) ==
  IF token = "" THEN [NoErr EXCEPT !.kind = "telegram bot token is empty"]
  ELSE IF chatID = ""
  THEN [NoErr EXCEPT !.kind = "telegram chat ID is empty"]
  ELSE IF ~FormatMessageOK(mode)
  THEN [NoErr EXCEPT !.kind = "failed to format message"]
  ELSE IF ~NewRequestOK(token)
  THEN [NoErr EXCEPT !.kind = "failed to create request"]
  ELSE NoErr

\* Send up to c.httpClient.Do: a failed check leaves an error to be put on
\* errChan, otherwise the POST is issued.
SendPrepare ==
  /\ Alive
  /\ spc = "called"
  /\ LET e == SendCheck(starg.Token, starg.ChatID, parseMode) IN
       IF e # NoErr
       THEN /\ sendErr' = e
            /\ spc' = "reporting"
            /\ UNCHANGED posts
       ELSE /\ posts' = posts + 1
            /\ spc' = "posting"
            /\ UNCHANGED sendErr
  /\ UNCHANGED <<clientVars, pc, messages, errQ, dpc, dmsg, done, parseMode,
                 starg, lastErr, resp, sendRes, recvLog>>

\* What makeRequest returns once Do has returned a response: the read error,
\* the API error with status and body, or nil (NoErr).
ResponseError_AnyStatus(r) ==
  IF ~r.readable
  THEN [NoErr EXCEPT !.kind = "failed to read response body"]
  ELSE NoErr

ResponseError(r) ==
  IF ~r.readable
  THEN [NoErr EXCEPT !.kind = "failed to read response body"]
  ELSE IF r.status # StatusOK
  THEN [kind |-> "telegram API error", status |-> r.status, body |-> r.body]
  ELSE NoErr

\* c.httpClient.Do fails (no response).
HttpFail_Retry ==
  /\ Alive
  /\ spc = "posting"
  /\ posts' = posts + 1
  /\ UNCHANGED <<clientVars, pc, messages, errQ, dpc, dmsg, done, parseMode,
                 spc, starg, sendErr, lastErr, resp, sendRes, recvLog>>

HttpFail ==
  /\ Alive
  /\ spc = "posting"
  /\ sendErr' = [NoErr EXCEPT !.kind = "failed to execute request"]
  /\ resp' = NoResp
  /\ spc' = "reporting"
  /\ UNCHANGED <<clientVars, pc, messages, errQ, dpc, dmsg, done, parseMode,
                 starg, lastErr, posts, sendRes, recvLog>>

\* c.httpClient.Do returns a response; makeRequest reads the body and looks
\* at the status.  On nil Send returns and the loop continues.
HttpResponse ==
  /\ Alive
  /\ spc = "posting"
  /\ \E r \in Responses :
       /\ resp' = r
       /\ IF ResponseError(r) # NoErr
          THEN /\ sendErr' = ResponseError(r)
               /\ spc' = "reporting"
               /\ UNCHANGED <<dpc, sendRes>>
          ELSE /\ spc' = "idle"
               /\ dpc' = "select"
               /\ sendRes' = "ok"
               /\ UNCHANGED sendErr
  /\ UNCHANGED <<clientVars, pc, messages, errQ, dmsg, done, parseMode,
                 starg, lastErr, posts, recvLog>>

\* c.errChan <- err; return.  The send waits for room in the channel.
SendReport ==
  /\ Alive
  /\ spc = "reporting"
  /\ errQ < ErrCap
  /\ errQ' = errQ + 1
  /\ lastErr' = sendErr
  /\ sendErr' = NoErr
  /\ spc' = "idle"
  /\ dpc' = "select"
  /\ sendRes' = "err"
  /\ UNCHANGED <<clientVars, pc, messages, dmsg, done, parseMode, starg,
                 resp, posts, recvLog>>

\* Disable, after Close returned nil: p.done <- struct{}{}.
DisableSignal ==
  /\ Alive
  /\ dpc # "off"
  /\ done < DoneCap
  /\ done' = done + 1
  /\ UNCHANGED <<clientVars, pc, messages, errQ, dpc, dmsg, parseMode, spc,
                 starg, sendErr, lastErr, resp, posts, sendRes, recvLog>>

\* The plugin is enabled with a valid configuration: "go p.Start()" runs the
\* dispatcher loop and the API client on a server that stays up.
DeliveryInit ==
  /\ ClientInit
  /\ hostSet = TRUE
  /\ tokenSet = TRUE
  /\ pc = "loop"
  /\ retPc = "loop"
  /\ frameLimit = MaxRelayFrames
  /\ pconfig \in DeliveryConfigs
  /\ routed = NoRoute
  /\ cfgCount = 0
  /\ RouterAtRest
  /\ LoadIdle
  /\ EscIdle
  /\ FmtIdle
  /\ SafeIdle
  /\ LifeIdle
  /\ dpc = "select"
  /\ dmsg = NoMsg
  /\ done = 0
  /\ parseMode \in ParseModes
  /\ spc = "idle"
  /\ starg = NoTarget
  /\ sendErr = NoErr
  /\ lastErr = NoErr
  /\ resp = NoResp
  /\ posts = 0
  /\ sendRes = "none"
  /\ recvLog = <<>>

DeliveryNext ==
  \/ ConnectBegin \/ DialOK \/ ReadLoopEnter \/ ReadFrame
  \/ ReaderRead \/ SelectMsg
  \/ FetchError \/ FetchNon200 \/ FetchList \/ SendMsg
  \/ DispDone \/ DispErr \/ DispMsg
  \/ SendPrepare \/ HttpFail \/ HttpResponse \/ SendReport
  \/ DisableSignal

DeliverySpec == DeliveryInit /\ [][DeliveryNext]_vars

\* The same plugin with one well-formed configuration, on a server whose
\* connection may break: the client reconnects while the dispatcher runs.
RelayInit ==
  /\ DeliveryInit
  /\ parseMode = "MarkdownV2"
  /\ pconfig.Bots["a"] = [Token |-> "TA", ChatID |-> "CA"]

RelayNext ==
  \/ ConnectBegin \/ DialOK \/ ReadLoopEnter \/ ReadFrame \/ ReadError
  \/ ReaderRead \/ ReaderError \/ SelectErr \/ SelectMsg \/ Reset
  \/ FetchError \/ FetchNon200 \/ FetchList \/ SendMsg \/ ServerBreak
  \/ DispErr \/ DispMsg \/ SendPrepare \/ HttpFail \/ HttpResponse
  \/ SendReport

RelaySpec == RelayInit /\ [][RelayNext]_vars

\* The plugin as NewGotifyPluginInstance builds it, enabled either before
\* gotify has handed it a configuration (p.config is nil until the first
\* accepted ValidateAndSetConfig) or after.
StartupInit ==
  /\ ClientInit
  /\ hostSet = TRUE
  /\ tokenSet = TRUE
  /\ pc = "loop"
  /\ retPc = "loop"
  /\ frameLimit = MaxRelayFrames
  /\ pconfig \in DeliveryConfigs \cup {NilConfig}
  /\ routed = NoRoute
  /\ cfgCount = 0
  /\ RouterAtRest
  /\ LoadIdle
  /\ EscIdle
  /\ FmtIdle
  /\ SafeIdle
  /\ LifeIdle
  /\ dpc = "select"
  /\ dmsg = NoMsg
  /\ done = 0
  /\ parseMode \in ParseModes
  /\ spc = "idle"
  /\ starg = NoTarget
  /\ sendErr = NoErr
  /\ lastErr = NoErr
  /\ resp = NoResp
  /\ posts = 0
  /\ sendRes = "none"
  /\ recvLog = <<>>

StartupSpec == StartupInit /\ [][DeliveryNext]_vars

\* ------------------------------------------------------------ config.Load
\* strconv.ParseBool: the literals it accepts, anything else is an error.
ParseBool(str) ==
  IF str \in {"1", "t", "T", "TRUE", "true", "True"}
  THEN [ok |-> TRUE, val |-> TRUE]
  ELSE IF str \in {"0", "f", "F", "FALSE", "false", "False"}
  THEN [ok |-> TRUE, val |-> FALSE]
  ELSE [ok |-> FALSE, val |-> FALSE]

\* strconv.ParseInt(str, 10, 64) on the values explored.
ParseInt(str) ==
  CASE str = "0"  -> [ok |-> TRUE, val |-> 0]
    [] str = "5"  -> [ok |-> TRUE, val |-> 5]
    [] str = "-1" -> [ok |-> TRUE, val |-> -1]
    [] OTHER      -> [ok |-> FALSE, val |-> 0]

\* url.Parse on the values explored: whether it succeeds, and the hostname
\* of the result.
UrlParse(str) ==
  CASE str = "http://y" -> [ok |-> TRUE, host |-> "y"]
    [] str = "http://e" -> [ok |-> TRUE, host |-> "e"]
    [] str = "%zz"      -> [ok |-> FALSE, host |-> ""]
    [] OTHER            -> [ok |-> TRUE, host |-> ""]

\* strings.Split(str, ","): the pieces between the commas; one piece, the
\* whole string, when there is no comma, also for the empty string.
RECURSIVE Split(_, _)
Split(str, piece) ==
  IF str = <<>> THEN <<piece>>
  ELSE IF Head(str) = "," THEN <<piece>> \o Split(Tail(str), <<>>)
  ELSE Split(Tail(str), Append(piece, Head(str)))

\* setFieldFromEnv on a field of the given kind holding cur, for a variable
\* whose state is e: the value of the field afterwards.
setFieldFromEnv_ZeroOnError(kind, cur, e) ==
  IF ~e.set THEN cur
  ELSE CASE kind = "string" -> e.val
         [] kind = "bool"   -> ParseBool(e.val).val
         [] kind = "int"    -> ParseInt(e.val).val
         [] OTHER           -> Split(e.val, <<>>)

setFieldFromEnv(kind, cur, e) ==
  IF ~e.set THEN cur
  ELSE CASE kind = "string" -> e.val
         [] kind = "bool"   -> IF ParseBool(e.val).ok
                               THEN ParseBool(e.val).val ELSE cur
         [] kind = "int"    -> IF ParseInt(e.val).ok
                               THEN ParseInt(e.val).val ELSE cur
         [] OTHER           -> Split(e.val, <<>>)

\* processStruct over the fields that carry an env tag.
processStruct(cfg, env) ==
  [cfg EXCEPT
     !.LogLevel = setFieldFromEnv("string", @, env.LogLevel),
     !.IncludeExtras = setFieldFromEnv("bool", @, env.IncludeExtras),
     !.PriorityThreshold = setFieldFromEnv("int", @, env.PriorityThreshold),
     !.RawUrl = setFieldFromEnv("string", @, env.RawUrl),
     !.DefaultBotToken = setFieldFromEnv("string", @, env.DefaultBotToken),
     !.DefaultChatIDs = setFieldFromEnv("slice", @, env.DefaultChatIDs)]

overlayEnvVars_RawUrlFirst(cfg, env) ==
  IF env.RawUrl.set /\ ~UrlParse(env.RawUrl.val).ok
  THEN [err |-> "url.Parse", cfg |-> [cfg EXCEPT !.RawUrl = env.RawUrl.val]]
  ELSE [err |-> "nil",
        cfg |-> processStruct(
                  IF env.RawUrl.set
                  THEN [cfg EXCEPT !.RawUrl = env.RawUrl.val,
                                   !.Url = UrlParse(env.RawUrl.val).host]
                  ELSE cfg, env)]

\* overlayEnvVars: the URL variable first (an unparsable value is an
\* error), then every tagged field.
overlayEnvVars(cfg, env) ==
  IF env.RawUrl.set /\ ~UrlParse(env.RawUrl.val).ok
  THEN [err |-> "url.Parse", cfg |-> cfg]
  ELSE [err |-> "nil",
        cfg |-> processStruct(
                  IF env.RawUrl.set
                  THEN [cfg EXCEPT !.RawUrl = env.RawUrl.val,
                                   !.Url = UrlParse(env.RawUrl.val).host]
                  ELSE cfg, env)]

\* Plugin.Validate: the error of the first failed check ("nil" for none)
\* and the configuration, whose Url it sets on the way.
Validate(cfg) ==
  IF cfg.DefaultBotToken = ""
  THEN [err |-> "settings.telegram.default_bot_token is required", cfg |-> cfg]
  ELSE IF Len(cfg.DefaultChatIDs) = 0
  THEN [err |-> "settings.telegram.default_chat_ids is required", cfg |-> cfg]
  ELSE IF cfg.RawUrl = ""
  THEN [err |-> "settings.gotify_server.url is required", cfg |-> cfg]
  ELSE IF ~UrlParse(cfg.RawUrl).ok
  THEN [err |-> "url.Parse", cfg |-> cfg]
  ELSE LET c == [cfg EXCEPT !.Url = UrlParse(cfg.RawUrl).host] IN
       IF c.Url = ""
       THEN [err |-> "settings.gotify_server.url is invalid", cfg |-> c]
       ELSE IF c.ClientToken = ""
       THEN [err |-> "settings.gotify_server.client_token is required",
             cfg |-> c]
       ELSE [err |-> "nil", cfg |-> c]

\* Load(newCfg): overlay unless IgnoreEnvVars, then Validate; the
\* configuration is returned only when both succeed.
LoadResult(cfg, env) ==
  LET o == IF cfg.IgnoreEnvVars THEN [err |-> "nil", cfg |-> cfg]
           ELSE overlayEnvVars(cfg, env)
      v == Validate(o.cfg)
  IN IF o.err # "nil" THEN [err |-> o.err, cfg |-> NoPlugin]
     ELSE IF v.err # "nil" THEN [err |-> v.err, cfg |-> NoPlugin]
     ELSE v

\* The environments explored: each variable unset or set to one of a few
\* values.
Environments ==
  [LogLevel : {Unset} \cup [set : {TRUE}, val : {"debug"}],
   IncludeExtras : {Unset} \cup [set : {TRUE}, val : {"true", "yes"}],
   PriorityThreshold : {Unset} \cup [set : {TRUE}, val : {"5", "high"}],
   RawUrl : {Unset} \cup [set : {TRUE}, val : {"http://e", "%zz"}],
   DefaultBotToken : {Unset} \cup [set : {TRUE}, val : {"envtoken"}],
   DefaultChatIDs : {UnsetSeq} \cup
                    [set : {TRUE}, val : {<<>>, <<"c", ",", "d">>}]]

\* Configurations decoded from the yaml the user saved.
YamlConfigs ==
  [IgnoreEnvVars : BOOLEAN, LogLevel : {"info"}, IncludeExtras : BOOLEAN,
   PriorityThreshold : {0}, RawUrl : {"", "http://y"}, Url : {"nil"},
   ClientToken : {"ctok"}, DefaultBotToken : {"", "yamltoken"},
   DefaultChatIDs : {<<>>, << <<"y">> >>}]

\* Load is called on the decoded configuration.
Load ==
  /\ ldpc = "ready"
  /\ ldOut' = LoadResult(ldIn, ldEnv).cfg
  /\ ldErr' = LoadResult(ldIn, ldEnv).err
  /\ ldpc' = "done"
  /\ UNCHANGED <<cfgVars, connVars, pc, retPc, readerVars, pending, messages,
                 errQ, cacheVars, timeVars, msgSeq, dialHist, sessionEnd,
                 closeHist, pmRet, routerVars, frameLimit, deliveryVars,
                 raceVars, ldEnv, ldIn, escVars, fmtVars, safeVars, lifeVars>>

LoadInit ==
  /\ ClientInit
  /\ rev = "api_go"
  /\ RouterIdle
  /\ frameLimit = MaxFrames
  /\ DeliveryIdle
  /\ RouterAtRest
  /\ hostSet = TRUE
  /\ tokenSet = TRUE
  /\ pc = "idle"
  /\ retPc = "idle"
  /\ ldpc = "ready"
  /\ ldEnv \in Environments
  /\ ldIn \in YamlConfigs
  /\ ldOut = NoPlugin
  /\ ldErr = "none"
  /\ EscIdle
  /\ FmtIdle
  /\ SafeIdle
  /\ LifeIdle

LoadSpec == LoadInit /\ [][Load]_vars

\* ------------------------------------------------------ escapeMarkdownV2
\* A string is the sequence of its characters; "backtick" stands for the
\* grave accent.
\* specialChars of format.go and charactersToEscape of the later formatter.
specialChars ==
  <<"_", "*", "[", "]", "(", ")", "~", "backtick", ">",
    "#", "+", "-", "=", "|", "{", "}", ".", "!">>

charactersToEscape_WithBackslash ==
  <<"_", "*", "[", "]", "(", ")", "~", "backtick", ">", "#", "+", "-", "=",
    "|", "{", "}", ".", "!", "\\">>

charactersToEscape ==
  <<"_", "*", "[", "]", "(", ")", "~", "backtick", ">", "#", "+", "-", "=",
    "|", "{", "}", ".", "!">>

\* strings.ReplaceAll(str, old, new) for a one-character old: the halves of
\* str are replaced in separately, which gives the same text because no
\* match spans two characters.
RECURSIVE ReplaceAll(_, _, _)
ReplaceAll(str, old, new) ==
  IF Len(str) = 0 THEN <<>>
  ELSE IF Len(str) = 1 THEN (IF str[1] = old THEN new ELSE str)
  ELSE ReplaceAll(SubSeq(str, 1, Len(str) \div 2), old, new)
       \o ReplaceAll(SubSeq(str, Len(str) \div 2 + 1, Len(str)), old, new)

\* strings.Split(str, "\n"): the pieces between the occurrences of a
\* backslash followed by n, taken from the left; piece is what the first
\* piece begins with.
RECURSIVE SplitNL(_, _)
SplitNL(str, piece) ==
  LET hits == { i \in 1..(Len(str) - 1) : str[i] = "\\" /\ str[i + 1] = "n" }
      first == CHOOSE i \in hits : \A j \in hits : i <= j
  IN IF hits = {} THEN <<piece \o str>>
     ELSE <<piece \o SubSeq(str, 1, first - 1)>>
          \o SplitNL(SubSeq(str, first + 2, Len(str)), <<>>)

\* strings.Join(parts, "\n").
RECURSIVE JoinNL(_)
JoinNL(parts) ==
  IF Len(parts) = 1 THEN parts[1]
  ELSE parts[1] \o <<"\\", "n">> \o JoinNL(Tail(parts))

\* escapeMarkdownV2 of format.go: result after the loop has run over the
\* characters in chars (the loop leaves an empty text empty).
RECURSIVE escapeMarkdownV2(_, _)
escapeMarkdownV2(result, chars) ==
  IF chars = <<>> \/ result = <<>> THEN result
  ELSE escapeMarkdownV2(ReplaceAll(result, Head(chars), <<"\\", Head(chars)>>),
                        Tail(chars))

\* escapeMarkdownV2 of the later formatter: a text holding "\n" is split at
\* it, the character is replaced in every part unless it is the backslash,
\* and the parts are joined again (which leaves an empty text empty).
RECURSIVE escapeMarkdownV2_NL(_, _)
escapeMarkdownV2_NL(escaped, chars) ==
  IF chars = <<>> \/ escaped = <<>> THEN escaped
  ELSE LET char  == Head(chars)
           parts == SplitNL(escaped, <<>>)
           step  ==
             IF Len(parts) > 1
             THEN JoinNL([i \in 1..Len(parts) |->
                            IF char # "\\"
                            THEN ReplaceAll(parts[i], char, <<"\\", char>>)
                            ELSE parts[i]])
             ELSE ReplaceAll(escaped, char, <<"\\", char>>)
       IN escapeMarkdownV2_NL(step, Tail(chars))

\* The texts explored: up to MaxText characters out of the escaped ones, a
\* letter, the backslash and n.
Texts ==
  UNION { [1..n -> {specialChars[i] : i \in 1..Len(specialChars)}
                   \cup {"a", "n", "\\"}] : n \in 0..MaxText }

\* A call of format.go's escapeMarkdownV2.
Escape ==
  /\ escpc = "ready"
  /\ escOut' = escapeMarkdownV2(escIn, specialChars)
  /\ escpc' = "done"
  /\ UNCHANGED <<cfgVars, connVars, pc, retPc, readerVars, pending, messages,
                 errQ, cacheVars, timeVars, msgSeq, dialHist, sessionEnd,
                 closeHist, pmRet, routerVars, frameLimit, deliveryVars,
                 raceVars, loadVars, fmtVars, safeVars, lifeVars, escIn>>

\* A call of the later formatter's escapeMarkdownV2.
EscapeNL ==
  /\ escpc = "ready"
  /\ escOut' = escapeMarkdownV2_NL(escIn, charactersToEscape)
  /\ escpc' = "doneNL"
  /\ UNCHANGED <<cfgVars, connVars, pc, retPc, readerVars, pending, messages,
                 errQ, cacheVars, timeVars, msgSeq, dialHist, sessionEnd,
                 closeHist, pmRet, routerVars, frameLimit, deliveryVars,
                 raceVars, loadVars, fmtVars, safeVars, lifeVars, escIn>>

EscapeInit ==
  /\ ClientInit
  /\ rev = "api_go"
  /\ RouterIdle
  /\ frameLimit = MaxFrames
  /\ DeliveryIdle
  /\ RouterAtRest
  /\ LoadIdle
  /\ hostSet = TRUE
  /\ tokenSet = TRUE
  /\ pc = "idle"
  /\ retPc = "idle"
  /\ escpc = "ready"
  /\ escIn \in Texts
  /\ escOut = <<>>
  /\ FmtIdle
  /\ SafeIdle
  /\ LifeIdle

EscapeNext == Escape \/ EscapeNL

EscapeSpec == EscapeInit /\ [][EscapeNext]_vars

\* --------------------------------------------------- the message formatter
\* Non-ASCII characters are spelled out: "red", "orange", "yellow", "green"
\* stand for the coloured circles and "bullet" for the bullet sign.

\* Index of the first character of str that is in chars, 0 when none is.
Find(str, chars) ==
  IF \E i \in 1..Len(str) : str[i] \in chars
  THEN CHOOSE i \in 1..Len(str) :
         str[i] \in chars /\ \A j \in 1..(i - 1) : str[j] \notin chars
  ELSE 0

\* strings.Contains(str, sub).
Contains(str, sub) ==
  \E i \in 0..(Len(str) - Len(sub)) : SubSeq(str, i + 1, i + Len(sub)) = sub

\* strings.Split(str, sep) and strings.Join(parts, sep) for a one-character
\* separator.
RECURSIVE SplitOn(_, _)
SplitOn(str, sep) ==
  IF Find(str, {sep}) = 0 THEN <<str>>
  ELSE <<SubSeq(str, 1, Find(str, {sep}) - 1)>>
       \o SplitOn(SubSeq(str, Find(str, {sep}) + 1, Len(str)), sep)

RECURSIVE JoinOn(_, _)
JoinOn(parts, sep) ==
  IF Len(parts) = 0 THEN <<>>
  ELSE IF Len(parts) = 1 THEN parts[1]
  ELSE parts[1] \o <<sep>> \o JoinOn(Tail(parts), sep)

\* A match of linkRegex, \[([^\]]+)\]\(([^)]+)\), at the start of str: the
\* text runs to the first "]", which "(" must follow, and the URL runs to the
\* first ")"; the text has min characters or more (one for linkRegex) and
\* the URL is not empty.
LinkAt(str, min) ==
  LET q    == Find(str, {"]"})
      rest == SubSeq(str, q + 2, Len(str))
      r    == Find(rest, {")"})
  IN IF /\ Len(str) > 0 /\ str[1] = "["
        /\ q > min + 1 /\ Len(str) > q /\ str[q + 1] = "("
        /\ r > 1
     THEN [ok |-> TRUE, text |-> SubSeq(str, 2, q - 1),
           url |-> SubSeq(rest, 1, r - 1), len |-> q + 1 + r]
     ELSE [ok |-> FALSE, text |-> <<>>, url |-> <<>>, len |-> 0]

\* A match of imgRegex, !\[\]\((.*?)\), at the start of str: the URL runs to
\* the first ")" and holds no newline; it may be empty.
ImageAt(str) ==
  LET rest == SubSeq(str, 5, Len(str))
      r    == Find(rest, {")", "\n"})
  IN IF /\ Len(str) >= 4 /\ SubSeq(str, 1, 4) = <<"!", "[", "]", "(">>
        /\ r > 0 /\ rest[r] = ")"
     THEN [ok |-> TRUE, url |-> SubSeq(rest, 1, r - 1), len |-> 4 + r]
     ELSE [ok |-> FALSE, url |-> <<>>, len |-> 0]

\* escapeURLForMarkdown: only the parentheses are escaped.
escapeURLForMarkdown(url) == escapeMarkdownV2(url, <<")", "(">>)

\* Where the leftmost match of a regular expression begins in a text, 0 when
\* there is none; lens[i] is the length of the match that begins at the i-th
\* character, 0 when none begins there.
FirstMatch(lens) ==
  LET hits == { i \in 1..Len(lens) : lens[i] > 0 }
  IN IF hits = {} THEN 0 ELSE CHOOSE i \in hits : \A j \in hits : i <= j

\* processMarkdownLinks: every match of linkRegex, from the left, is replaced
\* by the link with its text and its URL escaped.
RECURSIVE processMarkdownLinks(_)
processMarkdownLinks(text) ==
  LET i == FirstMatch([k \in 1..Len(text) |->
                         LinkAt(SubSeq(text, k, Len(text)), 1).len])
      m == LinkAt(SubSeq(text, i, Len(text)), 1)
  IN IF i = 0 THEN text
     ELSE SubSeq(text, 1, i - 1)
          \o <<"[">> \o escapeMarkdownV2(m.text, specialChars)
          \o <<"]", "(">> \o escapeURLForMarkdown(m.url) \o <<")">>
          \o processMarkdownLinks(SubSeq(text, i + m.len, Len(text)))

\* convertImageMarkdownToURL: every match of imgRegex, from the left, is
\* replaced by its URL.
RECURSIVE convertImageMarkdownToURL(_)
convertImageMarkdownToURL(message) ==
  LET i == FirstMatch([k \in 1..Len(message) |->
                          ImageAt(SubSeq(message, k, Len(message))).len])
      m == ImageAt(SubSeq(message, i, Len(message)))
  IN IF i = 0 THEN message
     ELSE SubSeq(message, 1, i - 1) \o m.url
          \o convertImageMarkdownToURL(SubSeq(message, i + m.len,
                                              Len(message)))

\* formatTitle: "[AppName] Title".
formatTitle_NoBrackets(msg) == msg.AppName \o <<" ">> \o msg.Title

formatTitle(msg) == <<"[">> \o msg.AppName \o <<"]", " ">> \o msg.Title

\* getPriorityIndicator.
getPriorityIndicator_HighFrom7(priority) ==
  LET P == <<" ", "P", "r", "i", "o", "r", "i", "t", "y">> IN
  IF priority >= 8
  THEN <<"red", " ", "C", "r", "i", "t", "i", "c", "a", "l">> \o P
  ELSE IF priority >= 7 THEN <<"orange", " ", "H", "i", "g", "h">> \o P
  ELSE IF priority >= 4
  THEN <<"yellow", " ", "M", "e", "d", "i", "u", "m">> \o P
  ELSE <<"green", " ", "L", "o", "w">> \o P

getPriorityIndicator(priority) ==
  LET P == <<" ", "P", "r", "i", "o", "r", "i", "t", "y">> IN
  IF priority >= 8
  THEN <<"red", " ", "C", "r", "i", "t", "i", "c", "a", "l">> \o P
  ELSE IF priority >= 6 THEN <<"orange", " ", "H", "i", "g", "h">> \o P
  ELSE IF priority >= 4
  THEN <<"yellow", " ", "M", "e", "d", "i", "u", "m">> \o P
  ELSE <<"green", " ", "L", "o", "w">> \o P

\* An extras map is a function from its keys, which are strings, to
\* [nested, val]: val is the text fmt.Sprint gives for a simple value, or the
\* nested map.
\* formatExtras of format.go: the texts it may write; "for key, value :=
\* range extras" visits the keys of a Go map in an order that is not fixed.
RECURSIVE formatExtras(_, _)
formatExtras(extras, prefix) ==
  IF DOMAIN extras = {} THEN {<<>>}
  ELSE UNION {
    LET line == <<"\n">> \o prefix \o <<"bullet", " ">>
                \o escapeMarkdownV2(key, specialChars) \o <<":">>
        item == IF extras[key].nested
                THEN { line \o t :
                         t \in formatExtras(extras[key].val,
                                            prefix \o <<" ", " ">>) }
                ELSE { line \o <<" ", "backtick">>
                       \o escapeMarkdownV2(extras[key].val, specialChars)
                       \o <<"backtick">> }
        others == [k \in DOMAIN extras \ {key} |-> extras[k]]
    IN { i \o t : i \in item, t \in formatExtras(others, prefix) }
    : key \in DOMAIN extras }

\* The keys explored, in the order of sort.Strings.
KeyOrder == << <<"a">>, <<"b">>, <<"k", "_">> >>

\* The text time.Now().Format(time.RFC3339) gives, shortened.
Timestamp == <<"1", "-", "2", "T", "3", ":", "4", "Z">>

\* formatMessageForTelegram: the texts it may return.
formatMessageForTelegram(msg, formatOpts) ==
  LET messageTitle == IF formatOpts.IncludeAppName THEN formatTitle(msg)
                      ELSE msg.Title
      title == IF msg.Title # <<>>
               THEN <<"*">> \o escapeMarkdownV2(messageTitle, specialChars)
                    \o <<"*", "\n", "\n">>
               ELSE <<>>
      converted == IF Contains(msg.Message, <<"!", "[", "]", "(">>)
                   THEN convertImageMarkdownToURL(msg.Message)
                   ELSE msg.Message
      parts == SplitOn(processMarkdownLinks(converted), "\n")
      escaped == [i \in 1..Len(parts) |->
                   IF ~Contains(parts[i], <<"]", "(">>)
                   THEN escapeMarkdownV2(parts[i], specialChars)
                   ELSE parts[i]]
      content == JoinOn(escaped, "\n") \o <<"\n">>
      priority == IF msg.Priority > formatOpts.PriorityThreshold
                     /\ formatOpts.IncludePriority
                  THEN <<"\n">>
                       \o escapeMarkdownV2(getPriorityIndicator(msg.Priority),
                                           specialChars)
                  ELSE <<>>
      header == <<"\n", "\n", "*", "A", "d", "d", "i", "t", "i", "o", "n", "a",
                  "l", " ", "I", "n", "f", "o", ":", "*">>
      extras == IF DOMAIN msg.Extras # {}
                THEN { header \o t : t \in formatExtras(msg.Extras, <<>>) }
                ELSE {<<>>}
      timestamp == IF formatOpts.IncludeTimestamp
                   THEN <<"\n", "\n", "*">> \o Timestamp \o <<"*">>
                   ELSE <<>>
  IN { title \o content \o priority \o e \o timestamp : e \in extras }

\* A match of urlRegex, https?://[^\s]+, at the start of str: its length, 0
\* when there is none.
UrlAt(str) ==
  LET p == IF Len(str) >= 8 /\ SubSeq(str, 1, 8)
                                = <<"h", "t", "t", "p", "s", ":", "/", "/">>
           THEN 8
           ELSE IF Len(str) >= 7 /\ SubSeq(str, 1, 7)
                                    = <<"h", "t", "t", "p", ":", "/", "/">>
           THEN 7 ELSE 0
      e == Find(SubSeq(str, p + 1, Len(str)), {" ", "\n"})
      n == IF e = 0 THEN Len(str) - p ELSE e - 1
  IN IF p > 0 /\ n > 0 THEN p + n ELSE 0

\* strings.ReplaceAll(str, old, new) for a non-empty old of any length.
RECURSIVE ReplaceAllStr(_, _, _)
ReplaceAllStr(str, old, new) ==
  LET i == FirstMatch([k \in 1..Len(str) |->
                         IF /\ k + Len(old) - 1 <= Len(str)
                            /\ SubSeq(str, k, k + Len(old) - 1) = old
                         THEN Len(old) ELSE 0])
  IN IF i = 0 THEN str
     ELSE SubSeq(str, 1, i - 1) \o new
          \o ReplaceAllStr(SubSeq(str, i + Len(old), Len(str)), old, new)

\* formatMessageAsMarkdownV2. inlineURLs is kept as the list of the links
\* found, the n-th under the placeholder "INLINEURL" + n; the code restores
\* them in the order of a map, which makes no difference while no
\* placeholder is the beginning of another (fewer than eleven links).
formatMessageAsMarkdownV2(input) ==
  LET placeholder(n) ==
        <<"I", "N", "L", "I", "N", "E", "U", "R", "L">>
        \o <<<<"0", "1", "2", "3", "4", "5", "6", "7", "8", "9">>[n + 1]>>
      linkLen(str) == LinkAt(str, 1).len
      RECURSIVE links(_)
      links(text) ==
        LET i == FirstMatch([k \in 1..Len(text) |->
                               linkLen(SubSeq(text, k, Len(text)))])
            n == linkLen(SubSeq(text, i, Len(text)))
        IN IF i = 0 THEN <<>>
           ELSE <<SubSeq(text, i, i + n - 1)>>
                \o links(SubSeq(text, i + n, Len(text)))
      inlineURLs == links(input)
      RECURSIVE preserve(_, _)
      preserve(text, n) ==
        LET i == FirstMatch([k \in 1..Len(text) |->
                               linkLen(SubSeq(text, k, Len(text)))])
        IN IF i = 0 THEN text
           ELSE SubSeq(text, 1, i - 1) \o placeholder(n)
                \o preserve(SubSeq(text,
                                   i + linkLen(SubSeq(text, i, Len(text))),
                                   Len(text)),
                            n + 1)
      \* imageMarkdownRegex, !\[([^\]]*)\]\(([^)]+)\), and
      \* extractAndFormatImageURL, which returns the URL
      imageLen(str) == IF Head(str) = "!" /\ LinkAt(Tail(str), 0).ok
                       THEN LinkAt(Tail(str), 0).len + 1 ELSE 0
      RECURSIVE images(_)
      images(text) ==
        LET i == FirstMatch([k \in 1..Len(text) |->
                               imageLen(SubSeq(text, k, Len(text)))])
            m == LinkAt(SubSeq(text, i + 1, Len(text)), 0)
        IN IF i = 0 THEN text
           ELSE SubSeq(text, 1, i - 1) \o m.url
                \o images(SubSeq(text, i + m.len + 1, Len(text)))
      RECURSIVE plainURLs(_)
      plainURLs(text) ==
        LET i == FirstMatch([k \in 1..Len(text) |->
                               UrlAt(SubSeq(text, k, Len(text)))])
            match == SubSeq(text, i, i + UrlAt(SubSeq(text, i, Len(text))) - 1)
        IN IF i = 0 THEN text
           ELSE SubSeq(text, 1, i - 1)
                \o (IF \E k \in 1..Len(inlineURLs) :
                          Contains(inlineURLs[k], match)
                    THEN match
                    ELSE escapeMarkdownV2_NL(match, charactersToEscape))
                \o plainURLs(SubSeq(text, i + Len(match), Len(text)))
      words == SplitOn(plainURLs(images(preserve(input, 0))), " ")
      isPreserved(word) ==
        \E i \in 1..Len(inlineURLs) : word = placeholder(i - 1)
      matchesURL(word) ==
        \E i \in 1..Len(word) : UrlAt(SubSeq(word, i, Len(word))) > 0
      escaped == [i \in 1..Len(words) |->
                   IF ~isPreserved(words[i]) /\ ~matchesURL(words[i])
                   THEN escapeMarkdownV2_NL(words[i], charactersToEscape)
                   ELSE words[i]]
      RECURSIVE restore(_, _)
      restore(text, n) ==
        IF n > Len(inlineURLs) THEN text
        ELSE restore(ReplaceAllStr(text, placeholder(n - 1), inlineURLs[n]),
                     n + 1)
  IN restore(JoinOn(escaped, " "), 1)

\* formatExtras of the later formatter: the keys are sorted; keys holds the
\* sorted keys still to write, and every call ends with two newlines.
RECURSIVE formatExtrasSorted(_, _, _)
formatExtrasSorted(extras, prefix, keys) ==
  IF keys = <<>> THEN <<"\n", "\n">>
  ELSE LET key  == Head(keys)
           line == <<"\n">> \o prefix \o <<"bullet", " ">>
                   \o escapeMarkdownV2_NL(key, charactersToEscape) \o <<":">>
       IN (IF extras[key].nested
           THEN line \o formatExtrasSorted(
                          extras[key].val, prefix \o <<" ", " ">>,
                          SelectSeq(KeyOrder,
                                    LAMBDA k : k \in DOMAIN extras[key].val))
           ELSE line \o <<" ", "backtick">>
                \o escapeMarkdownV2_NL(extras[key].val, charactersToEscape)
                \o <<"backtick">>)
          \o formatExtrasSorted(extras, prefix, Tail(keys))

\* FormatMessage: the text and whether it returned an error.
FormatMessage_AtThreshold(msg, formatOpts) ==
  LET messageTitle == IF formatOpts.IncludeAppName THEN formatTitle(msg)
                      ELSE msg.Title
      title == IF msg.Title # <<>>
               THEN <<"*">>
                    \o escapeMarkdownV2_NL(messageTitle, charactersToEscape)
                    \o <<"*", "\n", "\n">>
               ELSE <<>>
      message == formatMessageAsMarkdownV2(msg.Message) \o <<"\n", "\n">>
      priority == IF msg.Priority >= formatOpts.PriorityThreshold
                     /\ formatOpts.IncludePriority
                  THEN escapeMarkdownV2_NL(getPriorityIndicator(msg.Priority),
                                           charactersToEscape)
                       \o <<"\n", "\n">>
                  ELSE <<>>
      extras == IF DOMAIN msg.Extras # {} /\ formatOpts.IncludeExtras
                THEN <<"*", "A", "d", "d", "i", "t", "i", "o", "n", "a", "l",
                       " ", "I", "n", "f", "o", ":", "*">>
                     \o formatExtrasSorted(
                          msg.Extras, <<>>,
                          SelectSeq(KeyOrder,
                                    LAMBDA k : k \in DOMAIN msg.Extras))
                ELSE <<>>
      timestamp == IF formatOpts.IncludeTimestamp
                   THEN <<"t", "i", "m", "e", "s", "t", "a", "m", "p", ":", " ">>
                        \o escapeMarkdownV2_NL(Timestamp, charactersToEscape)
                        \o <<"\n">>
                   ELSE <<>>
  IN IF formatOpts.ParseMode = "MarkdownV2"
     THEN [text |-> title \o message \o priority \o extras \o timestamp,
           err |-> FALSE]
     ELSE [text |-> <<>>, err |-> TRUE]

FormatMessage(msg, formatOpts) ==
  LET messageTitle == IF formatOpts.IncludeAppName THEN formatTitle(msg)
                      ELSE msg.Title
      title == IF msg.Title # <<>>
               THEN <<"*">>
                    \o escapeMarkdownV2_NL(messageTitle, charactersToEscape)
                    \o <<"*", "\n", "\n">>
               ELSE <<>>
      message == formatMessageAsMarkdownV2(msg.Message) \o <<"\n", "\n">>
      priority == IF msg.Priority > formatOpts.PriorityThreshold
                     /\ formatOpts.IncludePriority
                  THEN escapeMarkdownV2_NL(getPriorityIndicator(msg.Priority),
                                           charactersToEscape)
                       \o <<"\n", "\n">>
                  ELSE <<>>
      extras == IF DOMAIN msg.Extras # {} /\ formatOpts.IncludeExtras
                THEN <<"*", "A", "d", "d", "i", "t", "i", "o", "n", "a", "l",
                       " ", "I", "n", "f", "o", ":", "*">>
                     \o formatExtrasSorted(
                          msg.Extras, <<>>,
                          SelectSeq(KeyOrder,
                                    LAMBDA k : k \in DOMAIN msg.Extras))
                ELSE <<>>
      timestamp == IF formatOpts.IncludeTimestamp
                   THEN <<"t", "i", "m", "e", "s", "t", "a", "m", "p", ":", " ">>
                        \o escapeMarkdownV2_NL(Timestamp, charactersToEscape)
                        \o <<"\n">>
                   ELSE <<>>
  IN IF formatOpts.ParseMode = "MarkdownV2"
     THEN [text |-> title \o message \o priority \o extras \o timestamp,
           err |-> FALSE]
     ELSE [text |-> <<>>, err |-> TRUE]

\* The message bodies explored: up to MaxParts pieces, each an image, a link
\* whose text and URL hold reserved characters, a link whose text runs over
\* two lines, a word with a reserved character, a plain URL, a space or a
\* newline.
Bodies ==
  LET pieces ==
        { <<"!", "[", "]", "(", "u", ".", "v", ")">>,
          <<"[", "t", "_", "]", "(", "w", "(", "x", ")">>,
          <<"[", "t", "\n", "x", "]", "(", "w", ")">>,
          <<"a", "_">>,
          <<"h", "t", "t", "p", ":", "/", "/", "h", ".", "i">>,
          <<" ">>, <<"\n">> }
      RECURSIVE upTo(_)
      upTo(n) == IF n = 0 THEN {<<>>}
                 ELSE upTo(n - 1)
                      \cup { b \o p : b \in upTo(n - 1), p \in pieces }
  IN upTo(MaxParts)

\* The extras maps explored.
ExtrasMaps ==
  LET one == [nested |-> FALSE, val |-> <<"1">>]
      two == [nested |-> FALSE, val |-> <<"v", "_">>]
  IN { <<>>,
       <<"a">> :> one,
       (<<"a">> :> one) @@ (<<"b">> :> two),
       (<<"a">> :> [nested |-> TRUE,
                    val |-> (<<"a">> :> two) @@ (<<"b">> :> one)])
         @@ (<<"k", "_">> :> one) }

\* The calls explored: every body under plain options, and the titles, the
\* priorities and the extras each under every setting of their options; the
\* last call is the one of TestFormatMessageForTelegram's kind with title
\* "Test Title", body "Hello_World", app "TestApp" and priority 8.
FormatInputs ==
  LET msg0 == [Title |-> <<>>, Message |-> <<"a">>, AppName |-> <<"A">>,
               Priority |-> 0, Extras |-> <<>>]
      opt0 == [IncludeAppName |-> FALSE, IncludePriority |-> FALSE,
               PriorityThreshold |-> 0, IncludeExtras |-> FALSE,
               IncludeTimestamp |-> FALSE, ParseMode |-> "MarkdownV2"]
  IN { [msg |-> [msg0 EXCEPT !.Message = b],
        opts |-> [opt0 EXCEPT !.ParseMode = m]] :
         b \in Bodies, m \in ParseModes }
     \cup
     { [msg |-> [msg0 EXCEPT !.Title = t, !.AppName = a],
        opts |-> [opt0 EXCEPT !.IncludeAppName = i]] :
         t \in {<<>>, <<"T", "_">>}, a \in {<<"A">>, <<"A", "*">>},
         i \in BOOLEAN }
     \cup
     { [msg |-> [msg0 EXCEPT !.Priority = p],
        opts |-> [opt0 EXCEPT !.IncludePriority = i,
                              !.PriorityThreshold = t]] :
         p \in 0..MaxPriority, i \in BOOLEAN, t \in {-1, 5} }
     \cup
     { [msg |-> [msg0 EXCEPT !.Extras = e],
        opts |-> [opt0 EXCEPT !.IncludeExtras = i, !.IncludeTimestamp = s]] :
         e \in ExtrasMaps, i \in BOOLEAN, s \in BOOLEAN }
     \cup
     { [msg |-> [Title |-> <<"T", "e", "s", "t", " ", "T", "i", "t", "l", "e">>,
                 Message |-> <<"H", "e", "l", "l", "o", "_",
                               "W", "o", "r", "l", "d">>,
                 AppName |-> <<"T", "e", "s", "t", "A", "p", "p">>,
                 Priority |-> 8, Extras |-> <<>>],
        opts |-> [opt0 EXCEPT !.IncludeAppName = TRUE,
                              !.IncludePriority = TRUE,
                              !.PriorityThreshold = 5]] }

\* A call of formatMessageForTelegram.
FormatTelegram ==
  /\ fmpc = "ready"
  /\ \E t \in formatMessageForTelegram(fmIn.msg, fmIn.opts) :
       fmOut' = [text |-> t, err |-> FALSE]
  /\ fmpc' = "formatted"
  /\ UNCHANGED <<cfgVars, connVars, pc, retPc, readerVars, pending, messages,
                 errQ, cacheVars, timeVars, msgSeq, dialHist, sessionEnd,
                 closeHist, pmRet, routerVars, frameLimit, deliveryVars,
                 raceVars, loadVars, escVars, safeVars, lifeVars, fmIn>>

\* A call of FormatMessage.
FormatV2 ==
  /\ fmpc = "ready"
  /\ fmOut' = FormatMessage(fmIn.msg, fmIn.opts)
  /\ fmpc' = "formattedV2"
  /\ UNCHANGED <<cfgVars, connVars, pc, retPc, readerVars, pending, messages,
                 errQ, cacheVars, timeVars, msgSeq, dialHist, sessionEnd,
                 closeHist, pmRet, routerVars, frameLimit, deliveryVars,
                 raceVars, loadVars, escVars, safeVars, lifeVars, fmIn>>

FormatInit ==
  /\ ClientInit
  /\ rev = "api_go"
  /\ RouterIdle
  /\ frameLimit = MaxFrames
  /\ DeliveryIdle
  /\ RouterAtRest
  /\ LoadIdle
  /\ EscIdle
  /\ SafeIdle
  /\ LifeIdle
  /\ hostSet = TRUE
  /\ tokenSet = TRUE
  /\ pc = "idle"
  /\ retPc = "idle"
  /\ fmpc = "ready"
  /\ fmIn \in FormatInputs
  /\ fmOut = <<>>

FormatNext == FormatTelegram \/ FormatV2

FormatSpec == FormatInit /\ [][FormatNext]_vars

\* ------------------------------------------------------- Plugin.SafeString
\* utils.MaskToken: "" stays, a token of at most 8 characters becomes "***",
\* a longer one keeps its first and last four characters around "...".
MaskToken(token) ==
  IF Len(token) = 0 THEN <<>>
  ELSE IF Len(token) <= 8 THEN <<"*", "*", "*">>
  ELSE SubSeq(token, 1, 4) \o <<".", ".", ".">>
       \o SubSeq(token, Len(token) - 3, Len(token))

\* Tokens a configuration may hold: none, a short one, one of 8 and one of 9
\* characters.
SafeTokens ==
  { <<>>, <<"s", "t">>,
    <<"1", "2", "3", "4", "5", "6", "7", "8">>,
    <<"a", "b", "c", "d", "e", "f", "g", "h", "i">> }

\* Configurations SafeString is called on: the two top-level tokens and the
\* Bots map (bot name to token).
SafeConfigs ==
  { [ClientToken |-> ct, DefaultBotToken |-> dt, Bots |-> b] :
      ct \in SafeTokens, dt \in SafeTokens,
      b \in UNION { [names -> SafeTokens] : names \in SUBSET {"a", "b"} } }

\* json.MarshalIndent of a configuration, reduced to the quoted token values
\* in field order (encoding/json writes map entries in key order).
MarshalTokens(c) ==
  LET Q(str) == <<"'">> \o str \o <<"'">>
      bot(n) == IF n \in DOMAIN c.Bots THEN Q(c.Bots[n]) ELSE <<>>
  IN Q(c.ClientToken) \o Q(c.DefaultBotToken) \o bot("a") \o bot("b")

\* SafeString: configCopy := *p copies the struct, and with it the reference
\* to the Bots map, not the map.  The two top-level tokens are masked in the
\* copy; the loop stores each masked bot in configCopy...Bots, which is the
\* map of p.  cfg is p after the call, out the string returned.
SafeString(p) ==
  LET masked == [n \in DOMAIN p.Bots |-> MaskToken(p.Bots[n])]
      configCopy == [ClientToken |-> MaskToken(p.ClientToken),
                     DefaultBotToken |-> MaskToken(p.DefaultBotToken),
                     Bots |-> masked]
  IN [cfg |-> [p EXCEPT !.Bots = masked], out |-> MarshalTokens(configCopy)]

\* One call of SafeString on the live configuration.
SafeStringCall ==
  /\ sfCalls < MaxSafeCalls
  /\ sfCfg' = SafeString(sfCfg).cfg
  /\ sfOut' = SafeString(sfCfg).out
  /\ sfCalls' = sfCalls + 1
  /\ UNCHANGED <<cfgVars, connVars, pc, retPc, readerVars, pending, messages,
                 errQ, cacheVars, timeVars, msgSeq, dialHist, sessionEnd,
                 closeHist, pmRet, routerVars, frameLimit, deliveryVars,
                 raceVars, loadVars, escVars, fmtVars, lifeVars>>

SafeInit ==
  /\ ClientInit
  /\ RouterIdle
  /\ frameLimit = MaxFrames
  /\ DeliveryIdle
  /\ RouterAtRest
  /\ LoadIdle
  /\ EscIdle
  /\ FmtIdle
  /\ hostSet = TRUE
  /\ tokenSet = TRUE
  /\ pc = "idle"
  /\ retPc = "idle"
  /\ LifeIdle
  /\ sfCfg \in SafeConfigs
  /\ sfOut = <<>>
  /\ sfCalls = 0

SafeSpec == SafeInit /\ [][SafeStringCall]_vars

\* --------------------------------------------------- Enable and Disable
\* Enable: "go p.Start()".  A further dispatcher loop starts, and with it
\* "go p.apiclient.Start()"; of the API client one Start goroutine is
\* followed, the one started when none was running.
Enable ==
  /\ loops < MaxLoops
  /\ loops' = loops + 1
  /\ lastCall' = [op |-> "Enable", loops |-> loops]
  /\ pc' = IF pc \in {"idle", "returned"} THEN "loop" ELSE pc
  /\ UNCHANGED <<cfgVars, connVars, retPc, readerVars, pending, messages,
                 errQ, cacheVars, timeVars, msgSeq, dialHist, sessionEnd,
                 closeHist, pmRet, routerVars, frameLimit, deliveryVars,
                 raceVars, loadVars, escVars, fmtVars, safeVars, dis>>

\* Disable up to the result of p.apiclient.Close(): on an error Disable
\* returns it, on nil it goes on to send the done signal.
DisableClose ==
  /\ dis = "idle"
  /\ mu = "free"
  /\ extCloses < MaxCloses
  /\ \E f \in CloseOutcomes : CloseBody(f)
  /\ extCloses' = extCloses + 1
  /\ dis' = IF closeRet' = "nil" THEN "signal" ELSE "idle"
  /\ lastCall' = [op |-> "Disable", loops |-> loops]
  /\ UNCHANGED <<cfgVars, pc, retPc, readerVars, pending, messages, errQ,
                 cacheVars, timeVars, msgSeq, dialHist, sessionEnd, pmRet,
                 routerVars, frameLimit, deliveryVars, raceVars, loadVars,
                 escVars, fmtVars, safeVars, loops>>

\* Disable, p.done <- struct{}{}: waits for room in the channel, then
\* returns nil.
DisableSend ==
  /\ dis = "signal"
  /\ done < DoneCap
  /\ done' = done + 1
  /\ dis' = "idle"
  /\ UNCHANGED <<cfgVars, connVars, pc, retPc, readerVars, pending, messages,
                 errQ, cacheVars, timeVars, msgSeq, dialHist, sessionEnd,
                 closeHist, pmRet, routerVars, frameLimit, raceVars, loadVars,
                 escVars, fmtVars, safeVars, loops, lastCall, dpc, dmsg,
                 parseMode, spc, starg, sendErr, lastErr, resp, posts,
                 sendRes, recvLog>>

\* Plugin.Start, case <-p.done, in one of the running loops: return nil.
LoopDone ==
  /\ loops > 0
  /\ done > 0
  /\ done' = done - 1
  /\ loops' = loops - 1
  /\ UNCHANGED <<cfgVars, connVars, pc, retPc, readerVars, pending, messages,
                 errQ, cacheVars, timeVars, msgSeq, dialHist, sessionEnd,
                 closeHist, pmRet, routerVars, frameLimit, raceVars, loadVars,
                 escVars, fmtVars, safeVars, dis, lastCall, dpc, dmsg,
                 parseMode, spc, starg, sendErr, lastErr, resp, posts,
                 sendRes, recvLog>>

\* The plugin instance as NewGotifyPluginInstance returns it: no loop runs,
\* the done channel is empty, the API client is built and not started.
LifeInit ==
  /\ ClientInit
  /\ RouterIdle
  /\ frameLimit = MaxFrames
  /\ DeliveryIdle
  /\ RouterAtRest
  /\ LoadIdle
  /\ EscIdle
  /\ FmtIdle
  /\ SafeIdle
  /\ LifeIdle
  /\ hostSet = TRUE
  /\ tokenSet = TRUE
  /\ pc = "idle"
  /\ retPc = "idle"

LifeNext ==
  \/ Enable \/ DisableClose \/ DisableSend \/ LoopDone
  \/ StartCtxDone \/ ConnectBegin \/ DialOK \/ Reset
  \/ ReadLoopCtxDone \/ ReadLoopEnter \/ ReadError
  \/ ReaderError \/ SelectErr

\* A loop at its select takes a done signal that is waiting, and a Disable
\* waiting to send it goes on when the channel has room.
LifeSpec ==
  /\ LifeInit
  /\ [][LifeNext]_vars
  /\ WF_vars(LoopDone)
  /\ WF_vars(DisableSend)

\* ================================================================= claims
SessionPcs == {"readLoop", "reading", "select", "fetching", "sending", "reset"}

\* C1: once the client's context is cancelled, Start eventually returns,
\* whatever it was doing (dialing, waiting to retry, reading, sending).
C1_StartReturnsAfterCancel == ctxDone ~> (pc = "returned")

\* C2: in a connect cycle with N failed dials then a successful one, Start
\* dials N+1 times, completes one retry delay after each failed dial before
\* the next dial, and enters the read loop after the successful dial with no
\* further delay.
C2_DialRetry ==
  (hostSet /\ tokenSet) =>
    /\ pc = "loop" => attempts = fails /\ delays = fails
    /\ pc = "dialing" => attempts = fails + 1 /\ delays = fails
    /\ pc = "retryWait" => attempts = fails /\ delays = fails - 1
    /\ pc \in SessionPcs => attempts = fails + 1 /\ delays = fails

C2_Witness ==
  /\ pc \in {"readLoop", "select"}
  /\ ~ctxDone
  /\ sessionEnd = "none"
  /\ fails = 2 /\ attempts = 3 /\ delays = 2

\* C3: a socket read error never makes Start return while the context is
\* live: Start returns only with the context cancelled; when readMessages
\* has returned a read error the connected flag is false; and from there
\* Start goes on to dial again unless the context is cancelled meanwhile.
C3_ReadErrorReconnects ==
  /\ [](pc = "returned" => ctxDone)
  /\ []((pc = "reset" /\ sessionEnd = "readError") => ~isConnected)
  /\ ((pc = "reset" /\ sessionEnd = "readError" /\ ~ctxDone)
        ~> (ctxDone \/ pc = "dialing"))

C3_Witness ==
  /\ pc = "dialing"
  /\ sessionEnd = "readError"
  /\ ~ctxDone
  /\ ~isConnected
  /\ conn # 0

\* C4 (as claimed): a Close that follows a Close that returned nil, or that
\* is made on a client that never connected, sends no close frame, closes no
\* socket, changes no state and returns nil.
ConnUntouched ==
  /\ closeFrames' = closeFrames
  /\ clientClosed' = clientClosed
  /\ isConnected' = isConnected
  /\ conn' = conn
  /\ closeRet' = "nil"

C4_CloseIdempotent ==
  [][(closeCalls' = closeCalls + 1 /\ (closeRet = "nil" \/ conn = 0))
       => (ConnUntouched /\ (closeRet = "nil" => ctxDone' = ctxDone))]_vars

\* C4 (amended): after a Close that returned nil, and as long as no later
\* dial has succeeded, any further Close sends no close frame, closes no
\* socket, changes no state and returns nil; Close on a client that never
\* connected sends no close frame, closes no socket and returns nil.
C4_CloseIdempotentUntilReconnect ==
  [][(closeCalls' = closeCalls + 1) =>
       /\ closedOK => (ConnUntouched /\ ctxDone' = ctxDone)
       /\ conn = 0 => ConnUntouched
    ]_vars

C4_Witness ==
  /\ extCloses = 1
  /\ idemCloses > 0
  /\ closeFrames > 0
  /\ closeRet = "nil"

\* C5: after the context is cancelled while the socket read is blocked, every
\* goroutine of the connection manager terminates, the reader goroutine of
\* readMessages included (unless the process has died).
C5_NoGoroutineLeak ==
  (rev = "part_008" /\ ctxDone /\ rpc = "reading")
    ~> ((pc = "returned" /\ rpc = "done") \/ pc = "panicked")

\* processMessage starts / leaves its fetch in this step.
CallStarts  == pc \notin {"fetching", "sending"} /\ pc' \in {"fetching", "sending"}
FetchReturns == pc = "fetching" /\ pc' # "fetching"

\* C6: a processMessage call for an app id whose entry was stored at most TTL
\* ago issues no application-list request; a call for an app id never stored
\* or stored more than TTL ago issues exactly one.
C6_OneFetchPerTTL ==
  [][CallStarts =>
       LET a == pending'.AppID IN
       IF lastFetchOK[a] >= 0 /\ now - lastFetchOK[a] <= TTL
       THEN fetchCount' = fetchCount
       ELSE fetchCount' = fetchCount + 1]_vars

C6_Witness ==
  /\ msgSeq = 3
  /\ fetchCount = 2
  /\ pc = "fetching"
  /\ lastFetchOK[pending.AppID] >= 0
  /\ now - lastFetchOK[pending.AppID] > TTL

\* C7: the request of a cache miss is not repeated, and when it fails or the
\* list lacks the app id, processMessage returns an error, sends nothing and
\* leaves the cache unchanged.
C7_MissFailsCleanly ==
  [][FetchReturns =>
       /\ fetchCount' = fetchCount
       /\ lastFetch' \in {"neterr", "status", "decode", "notfound"} =>
            /\ pmRet' = "err"
            /\ pc' = retPc
            /\ messages' = messages
            /\ cache' = cache]_vars

\* The metadata of m is that of an application record with m's app id.
Resolved(m) ==
  \E r \in AppRecords :
    r.ID = m.AppID /\ r.Name = m.AppName /\ r.Description = m.AppDescription

\* C8 (as claimed): every message on the messages channel has a non-empty
\* AppName and AppDescription, those of the application with its AppID.
C8_EnrichedNonEmpty ==
  \A i \in 1..Len(messages) :
    /\ messages[i].AppName # ""
    /\ messages[i].AppDescription # ""
    /\ Resolved(messages[i])

\* C8 (amended): every message on the messages channel, and the message
\* processMessage is about to send, carries the name and description of the
\* application with its AppID as resolved from the cache or the fetch, empty
\* where the application's own field is empty; none is unresolved.
C8_EnrichedFromApplication ==
  /\ \A i \in 1..Len(messages) : Resolved(messages[i])
  /\ pc = "sending" => Resolved(pending)

C8_Witness ==
  /\ Len(messages) = 1
  /\ messages[1].Id = 2
  /\ messages[1].AppDescription = ""
  /\ fetchCount = 1

\* Rules of cfg that list id.
Matching(cfg, id) ==
  { i \in 1..Len(cfg.Rules) : RuleMatches(cfg.Rules[i], id) }

TargetOf(cfg, n) ==
  IF n \in DOMAIN cfg.Bots THEN cfg.Bots[n] ELSE DefaultTarget(cfg)

Routed == routed.appID > 0

\* C9: an app id listed by exactly one rule, whose bot is configured, is
\* routed to that bot's token and chat; an app id listed by no rule is routed
\* to the default token and chat.
C9_RouterSelects ==
  Routed =>
    LET M == Matching(pconfig, routed.appID) IN
    /\ \A i \in M :
         (M = {i} /\ pconfig.Rules[i].BotName \in DOMAIN pconfig.Bots)
           => routed.result = pconfig.Bots[pconfig.Rules[i].BotName]
    /\ M = {} => routed.result = DefaultTarget(pconfig)

Min(S) == CHOOSE x \in S : \A y \in S : x <= y
Max(S) == CHOOSE x \in S : \A y \in S : x >= y

EmptyTarget(t) == t.Token = "" \/ t.ChatID = ""

\* Send returns in this step.
SendReturns == spc # "idle" /\ spc' = "idle"

\* C11: a Send called with an empty bot token or an empty chat id issues no
\* HTTP request, and when it returns it has put exactly one error on the
\* error channel, the one that names the empty argument.
C11_EmptyTargetNoRequest ==
  [][ /\ EmptyTarget(starg') => posts' = 0 /\ spc' # "posting"
      /\ SendReturns /\ EmptyTarget(starg) =>
           /\ errQ' = errQ + 1
           /\ sendRes' = "err"
           /\ lastErr'.kind = IF starg.Token = ""
                              THEN "telegram bot token is empty"
                              ELSE "telegram chat ID is empty" ]_vars

C11_Witness ==
  /\ spc = "idle"
  /\ sendRes = "err"
  /\ starg.Token # "" /\ starg.ChatID = ""
  /\ lastErr.kind = "telegram chat ID is empty"
  /\ errQ = 1
  /\ posts = 0

\* The API error built from a response: status code and body.
StatusError(r) ==
  [kind |-> "telegram API error", status |-> r.status, body |-> r.body]

\* C12 as stated: when Send returns after a response with a status other
\* than 200, it has reported the error that carries the status code and the
\* body; it returns without error only after a 200.
C12_Non200IsStatusError ==
  [][ /\ SendReturns /\ resp'.status \notin {0, StatusOK} =>
           sendRes' = "err" /\ lastErr' = StatusError(resp')
      /\ SendReturns /\ sendRes' = "ok" => resp'.status = StatusOK ]_vars

\* C12, amended: the error carries status code and body when the body of
\* the response could be read; a response whose body cannot be read is
\* reported as a read error, whatever its status; Send returns without
\* error only after a 200.
C12_ReadableNon200IsStatusError ==
  [][ /\ SendReturns /\ resp'.status \notin {0, StatusOK} /\ resp'.readable =>
           sendRes' = "err" /\ lastErr' = StatusError(resp')
      /\ SendReturns /\ resp'.status # 0 /\ ~resp'.readable =>
           /\ sendRes' = "err"
           /\ lastErr'.kind = "failed to read response body"
      /\ SendReturns /\ sendRes' = "ok" => resp'.status = StatusOK ]_vars

C12_Witness ==
  /\ spc = "idle"
  /\ sendRes = "err"
  /\ resp.status = 500 /\ resp.readable
  /\ lastErr = StatusError(resp)
  /\ errQ = 1

\* C13 as stated: a Send called with a non-empty token and chat id and a
\* message that formats has issued exactly one POST when it returns; no Send
\* call issues more than one.
C13_ExactlyOnePost ==
  [][ /\ posts' <= 1
      /\ SendReturns /\ ~EmptyTarget(starg) /\ FormatMessageOK(parseMode) =>
           posts' = 1 ]_vars

\* C13, amended: ... and a token from which a well-formed endpoint URL is
\* built; with a malformed one no POST is issued.
C13_ExactlyOnePostWellFormed ==
  [][ /\ posts' <= 1
      /\ SendReturns /\ ~EmptyTarget(starg) /\ FormatMessageOK(parseMode) =>
           posts' = IF NewRequestOK(starg.Token) THEN 1 ELSE 0 ]_vars

C13_Witness ==
  /\ spc = "idle"
  /\ Len(recvLog) = 2
  /\ ~EmptyTarget(starg) /\ FormatMessageOK(parseMode)
  /\ sendRes = "err"
  /\ lastErr.kind = "failed to execute request"
  /\ posts = 1

\* C14: while an HTTP delivery is in flight, the dispatcher loop can take
\* whatever waits on its channels: the next message, an error or the done
\* signal.
C14_LoopFreeDuringDelivery ==
  spc = "posting" /\ (messages # <<>> \/ errQ > 0 \/ done > 0) /\ Alive
    => ENABLED (DispMsg \/ DispErr \/ DispDone)

C17_WholeSnapshot ==
  [][ rtpc # "idle" /\ rtpc' = "idle" /\ routed' # PanicRoute
        => routed'.result \in rtWhole ]_vars

\* C18: a configuration that passed validation, the one that becomes
\* active, has a non-empty default bot token and a default chat destination
\* that is not empty; a configuration that failed validation is not returned.
C18_AcceptedConfigHasDefaultTarget ==
  ldpc = "done" =>
    IF ldErr = "nil"
    THEN /\ ldOut.DefaultBotToken # ""
         /\ \E i \in 1..Len(ldOut.DefaultChatIDs) :
              ldOut.DefaultChatIDs[i] # <<>>
    ELSE ldOut = NoPlugin

\* strings.Join(list, ","): the string a list of chat ids stands for.
RECURSIVE Join(_)
Join(list) ==
  IF Len(list) = 0 THEN <<>>
  ELSE IF Len(list) = 1 THEN list[1]
  ELSE list[1] \o <<",">> \o Join(Tail(list))

\* The variable of a field is in force: set, and not ignored.
EnvInForce(f) == ~ldIn.IgnoreEnvVars /\ ldEnv[f].set

\* Load returned a configuration.
Loaded == ldpc = "done" /\ ldErr = "nil"

\* The string and list fields after Load: the variable's value when it is
\* in force (for the list, the ids its commas separate), the yaml value
\* otherwise.
TextFieldsFollowEnv ==
  /\ \A f \in {"LogLevel", "RawUrl", "DefaultBotToken"} :
       ldOut[f] = IF EnvInForce(f) THEN ldEnv[f].val ELSE ldIn[f]
  /\ IF EnvInForce("DefaultChatIDs")
     THEN Join(ldOut.DefaultChatIDs) = ldEnv.DefaultChatIDs.val
     ELSE ldOut.DefaultChatIDs = ldIn.DefaultChatIDs

\* C19 as stated: after Load every field with an environment variable has
\* the variable's value when the variable is set and ignore_env_vars is
\* false, and its yaml value otherwise.
C19_EnvTakesPrecedence ==
  Loaded =>
    /\ TextFieldsFollowEnv
    /\ IF EnvInForce("IncludeExtras")
       THEN /\ ParseBool(ldEnv.IncludeExtras.val).ok
            /\ ldOut.IncludeExtras = ParseBool(ldEnv.IncludeExtras.val).val
       ELSE ldOut.IncludeExtras = ldIn.IncludeExtras
    /\ IF EnvInForce("PriorityThreshold")
       THEN /\ ParseInt(ldEnv.PriorityThreshold.val).ok
            /\ ldOut.PriorityThreshold =
                 ParseInt(ldEnv.PriorityThreshold.val).val
       ELSE ldOut.PriorityThreshold = ldIn.PriorityThreshold

\* C19, amended: ... a boolean or integer field has the variable's value
\* when the variable is in force and its value parses as a boolean or an
\* integer; a value that does not parse is ignored and the field keeps its
\* yaml value.
C19_ParsableEnvTakesPrecedence ==
  Loaded =>
    /\ TextFieldsFollowEnv
    /\ ldOut.IncludeExtras =
         IF EnvInForce("IncludeExtras") /\ ParseBool(ldEnv.IncludeExtras.val).ok
         THEN ParseBool(ldEnv.IncludeExtras.val).val
         ELSE ldIn.IncludeExtras
    /\ ldOut.PriorityThreshold =
         IF /\ EnvInForce("PriorityThreshold")
            /\ ParseInt(ldEnv.PriorityThreshold.val).ok
         THEN ParseInt(ldEnv.PriorityThreshold.val).val
         ELSE ldIn.PriorityThreshold

C19_Witness ==
  /\ Loaded
  /\ ldEnv.IncludeExtras = [set |-> TRUE, val |-> "yes"]
  /\ ldIn.IncludeExtras /\ ldOut.IncludeExtras
  /\ ldEnv.PriorityThreshold.val = "5" /\ ldOut.PriorityThreshold = 5
  /\ ldEnv.DefaultBotToken.set /\ ldOut.DefaultBotToken = "envtoken"
  /\ ldOut.DefaultChatIDs = << <<"c">>, <<"d">> >>
  /\ ldOut.LogLevel = "info"

\* The 18 characters MarkdownV2 reserves.
ReservedChars ==
  {"_", "*", "[", "]", "(", ")", "~", "backtick", ">", "#", "+", "-", "=",
   "|", "{", "}", ".", "!"}

Escaped == escpc \in {"done", "doneNL"}

\* C20: escaping a text that is one reserved character gives a backslash
\* followed by that character, for each of the 18; escaping a text with no
\* reserved character gives the text back.
C20_EscapeReserved ==
  Escaped =>
    /\ (Len(escIn) = 1 /\ escIn[1] \in ReservedChars)
         => escOut = <<"\\", escIn[1]>>
    /\ (\A i \in 1..Len(escIn) : escIn[i] \notin ReservedChars)
         => escOut = escIn

\* The later formatter has escaped the last character of its list.
C20_Witness ==
  escpc = "doneNL" /\ escIn = <<"!">> /\ escOut = <<"\\", "!">>

\* A formatter has returned a text.
Formatted == fmpc \in {"formatted", "formattedV2"} /\ ~fmOut.err

\* The label the priority stands for.
PriorityLabel(p) ==
  CASE p >= 8          -> <<"C", "r", "i", "t", "i", "c", "a", "l">>
    [] p >= 6 /\ p < 8 -> <<"H", "i", "g", "h">>
    [] p >= 4 /\ p < 6 -> <<"M", "e", "d", "i", "u", "m">>
    [] p < 4           -> <<"L", "o", "w">>

PriorityLabels ==
  { <<"C", "r", "i", "t", "i", "c", "a", "l">>, <<"H", "i", "g", "h">>,
    <<"M", "e", "d", "i", "u", "m">>, <<"L", "o", "w">> }

\* C21: the priority indicator a text shows is Critical for a priority of 8
\* or more, High from 6, Medium from 4 and Low below 4, and no other one.
C21_IndicatorThresholds ==
  (Formatted /\ fmIn.opts.IncludePriority
     /\ fmIn.msg.Priority > fmIn.opts.PriorityThreshold)
  => \A l \in PriorityLabels :
       Contains(fmOut.text, l) <=> l = PriorityLabel(fmIn.msg.Priority)

\* A priority of 6, the lowest that is High, has been rendered.
C21_Witness ==
  /\ fmpc = "formatted"
  /\ fmIn.opts.IncludePriority
  /\ fmIn.msg.Priority = 6
  /\ fmIn.opts.PriorityThreshold = 5
  /\ Contains(fmOut.text, <<"orange", " ", "H", "i", "g", "h">>)

\* The image of the bodies explored, its URL, and the URL escaped.
ImageMarkup == <<"!", "[", "]", "(", "u", ".", "v", ")">>

\* C22: every image markup of the body is rendered as its URL with the
\* reserved characters escaped, on a line of its own or not, and no "![]("
\* is left in the text.
C22_ImageAsEscapedURL ==
  (Formatted /\ Contains(fmIn.msg.Message, ImageMarkup))
  => /\ Contains(fmOut.text, <<"u", "\\", ".", "v">>)
     /\ ~Contains(fmOut.text, <<"u", ".", "v">>)
     /\ ~Contains(fmOut.text, <<"!", "[", "]", "(">>)

\* The text links of the bodies explored, each with the rendering the claim
\* gives it: the text escaped, in the URL the parentheses only.
TextLinks ==
  { [markup   |-> <<"[", "t", "_", "]", "(", "w", "(", "x", ")">>,
     rendered |-> <<"[", "t", "\\", "_", "]", "(", "w", "\\", "(", "x", ")">>],
    [markup   |-> <<"[", "t", "\n", "x", "]", "(", "w", ")">>,
     rendered |-> <<"[", "t", "\n", "x", "]", "(", "w", ")">>] }

\* C23: formatMessageForTelegram renders every text link of the body as the
\* link with its text and its URL escaped, and the later pass over the body
\* does not escape the link again: the rendering stands in the text and no
\* backslash precedes its opening bracket.
C23_LinkRenderedOnce ==
  fmpc = "formatted"
  => \A l \in TextLinks :
       Contains(fmIn.msg.Message, l.markup)
       => \E i \in 0..(Len(fmOut.text) - Len(l.rendered)) :
            /\ SubSeq(fmOut.text, i + 1, i + Len(l.rendered)) = l.rendered
            /\ (i > 0 => fmOut.text[i] # "\\")

\* First place at which sub stands in str, 0 when it does not.
Position(str, sub) ==
  IF Contains(str, sub)
  THEN 1 + CHOOSE i \in 0..(Len(str) - Len(sub)) :
             /\ SubSeq(str, i + 1, i + Len(sub)) = sub
             /\ \A j \in 0..(i - 1) : SubSeq(str, j + 1, j + Len(sub)) # sub
  ELSE 0

\* The bullet line of a key at a nesting level.
BulletLine(indent, key) ==
  <<"\n">> \o indent \o <<"bullet", " ">> \o key \o <<":">>

\* C24: in the extras block the bullet lines of a map stand in ascending
\* order of their keys, at the top level and in a nested map: the line of key
\* "a" before the line of key "b".
C24_ExtrasInKeyOrder ==
  Formatted
  => \A indent \in {<<>>, <<" ", " ">>} :
       (/\ Contains(fmOut.text, BulletLine(indent, <<"a">>))
        /\ Contains(fmOut.text, BulletLine(indent, <<"b">>)))
       => Position(fmOut.text, BulletLine(indent, <<"a">>))
            < Position(fmOut.text, BulletLine(indent, <<"b">>))

\* FormatMessage on a plain message under the parse mode of the state.
RenderingFails ==
  FormatMessage([Title |-> <<"T">>, Message |-> <<"a", "_">>,
                 AppName |-> <<"A">>, Priority |-> 0, Extras |-> <<>>],
                [IncludeAppName |-> FALSE, IncludePriority |-> FALSE,
                 PriorityThreshold |-> 0, IncludeExtras |-> FALSE,
                 IncludeTimestamp |-> FALSE, ParseMode |-> parseMode]).err

RECURSIVE Backslashed(_)
Backslashed(str) ==
  IF str = <<>> THEN <<>>
  ELSE (IF Head(str) \in ReservedChars THEN <<"\\", Head(str)>>
        ELSE <<Head(str)>>) \o Backslashed(Tail(str))

\* The bold title the claim gives a message.
BoldTitle ==
  <<"*">>
  \o (IF fmIn.opts.IncludeAppName
      THEN <<"\\", "[">> \o Backslashed(fmIn.msg.AppName) \o <<"\\", "]", " ">>
      ELSE <<>>)
  \o Backslashed(fmIn.msg.Title) \o <<"*">>

\* The message of the scenario: title "Test Title", app "TestApp".
IsScenario ==
  /\ fmIn.msg.Title = <<"T", "e", "s", "t", " ", "T", "i", "t", "l", "e">>
  /\ fmIn.msg.AppName = <<"T", "e", "s", "t", "A", "p", "p">>

\* C26: a text rendered for a message with a title begins with the bold
\* escaped title, with the escaped "[AppName] " before it exactly when
\* IncludeAppName is set; for the scenario the title holds \[TestApp\], the
\* body holds Hello\_World and the text shows the Critical indicator.
C26_BoldEscapedTitle ==
  (Formatted /\ fmIn.msg.Title # <<>>)
  => /\ SubSeq(fmOut.text, 1, Len(BoldTitle)) = BoldTitle
     /\ IsScenario
        => /\ Contains(BoldTitle,
                       <<"\\", "[", "T", "e", "s", "t", "A", "p", "p",
                         "\\", "]">>)
           /\ Contains(fmOut.text,
                       <<"H", "e", "l", "l", "o", "\\", "_",
                         "W", "o", "r", "l", "d">>)
           /\ Contains(fmOut.text,
                       <<"red", " ", "C", "r", "i", "t", "i", "c", "a", "l",
                         " ", "P", "r", "i", "o", "r", "i", "t", "y">>)

\* formatMessageForTelegram has rendered the scenario.
C26_Witness ==
  /\ fmpc = "formatted"
  /\ IsScenario
  /\ fmIn.msg.Priority = 8
  /\ fmIn.opts.IncludeAppName
  /\ SubSeq(fmOut.text, 1, 3) = <<"*", "\\", "[">>

\* C27: reporting a delivery error never blocks: a Send that has an error to
\* report finds room on the error channel, or the dispatcher is at its
\* select, where it can take an error off the channel.
C27_ReportNeverBlocks ==
  spc = "reporting" => (errQ < ErrCap \/ dpc = "select")

\* processMessage waits at its final select with the channel full and the
\* context live.
SenderBlocked == pc = "sending" /\ Len(messages) = MsgCap /\ ~ctxDone

\* C28: the messages channel never holds more than its capacity; while the
\* sender waits on a full channel with the context live it keeps waiting with
\* its message, the read loop of api.go reads no frame, and the channel only
\* loses its head to the dispatcher; with the context live the sender leaves
\* its select only by putting its message at the end of a channel that had
\* room; the channel changes only by the dispatcher taking its head or by
\* that send.
C28_FullChannelBlocksSender ==
  /\ [](Len(messages) <= MsgCap)
  /\ [][ /\ SenderBlocked
            => /\ pc' = "sending"
               /\ pending' = pending
               /\ rev = "api_go" => msgSeq' = msgSeq
               /\ messages' \in {messages, Tail(messages)}
         /\ (pc = "sending" /\ ~ctxDone /\ pc' # "sending")
            => /\ Len(messages) < MsgCap
               /\ messages' = Append(messages, pending)
         /\ messages' # messages
            => \/ messages # <<>> /\ messages' = Tail(messages)
               \/ pc = "sending" /\ messages' = Append(messages, pending) ]_vars

\* The read loop of api.go has read a frame beyond those the channel holds
\* and its sender waits on the full channel.
C28_Witness ==
  /\ SenderBlocked
  /\ rev = "api_go"
  /\ msgSeq > MsgCap
  /\ pending.Id = msgSeq

\* The rendered text shows a priority indicator.
HasIndicator ==
  \E l \in PriorityLabels :
    Contains(fmOut.text, l \o <<" ", "P", "r", "i", "o", "r", "i", "t", "y">>)

\* C29: a rendered text shows the priority indicator exactly when
\* IncludePriority is set and the priority of the message is greater than
\* PriorityThreshold; at a priority equal to the threshold it shows none.
C29_IndicatorAboveThreshold ==
  Formatted
  => /\ HasIndicator <=> (/\ fmIn.opts.IncludePriority
                          /\ fmIn.msg.Priority > fmIn.opts.PriorityThreshold)
     /\ fmIn.msg.Priority = fmIn.opts.PriorityThreshold => ~HasIndicator

\* A message whose priority is the threshold has been rendered with
\* IncludePriority set, and the text shows no indicator.
C29_Witness ==
  /\ fmpc = "formattedV2"
  /\ ~fmOut.err
  /\ fmIn.opts.IncludePriority
  /\ fmIn.msg.Priority = 5
  /\ fmIn.opts.PriorityThreshold = 5
  /\ ~HasIndicator

\* The rendered text has the section of the extras.
HasExtrasSection ==
  Contains(fmOut.text,
           <<"*", "A", "d", "d", "i", "t", "i", "o", "n", "a", "l", " ",
             "I", "n", "f", "o", ":", "*">>)

\* C30: the rendered text has the "Additional Info" section exactly when
\* IncludeExtras is set and the extras map is not empty; with IncludeExtras
\* unset the text holds no bullet of an extras entry.
C30_ExtrasOnlyWhenIncluded ==
  Formatted
  => /\ HasExtrasSection <=> (/\ fmIn.opts.IncludeExtras
                              /\ DOMAIN fmIn.msg.Extras # {})
     /\ ~fmIn.opts.IncludeExtras => ~Contains(fmOut.text, <<"bullet">>)

\* The client was built with an empty host or an empty client token.
NoEndpoint == ~hostSet \/ ~tokenSet

\* C31: connect on a client with an empty host or an empty client token
\* returns an error (Start goes to its retry wait) without dialing, and
\* leaves isConnected false and the socket handle as it was; such a client
\* never dials and is never connected.
C31_NoDialWithoutEndpoint ==
  /\ [](NoEndpoint => attempts = 0 /\ ~isConnected /\ conn = 0)
  /\ [][ (NoEndpoint /\ pc = "loop" /\ ~ctxDone /\ pc' # "loop")
         => /\ pc' = "retryWait"
            /\ attempts' = attempts
            /\ nextSock' = nextSock
            /\ conn' = conn
            /\ ~isConnected'
            /\ mu' = "free" ]_vars

\* connect has returned its error for an empty client token: Start waits to
\* retry, nothing was dialed.
C31_Witness ==
  /\ hostSet /\ ~tokenSet
  /\ pc = "retryWait"
  /\ attempts = 0
  /\ ~isConnected
  /\ conn = 0

\* Load has called overlayEnvVars with TG_PLUGIN__GOTIFY_URL set to a value
\* url.Parse rejects.
OverlaidBadUrl ==
  /\ ldpc = "done"
  /\ ~ldIn.IgnoreEnvVars
  /\ ldEnv.RawUrl.set
  /\ ~UrlParse(ldEnv.RawUrl.val).ok

\* C32: overlayEnvVars with an unparsable TG_PLUGIN__GOTIFY_URL returns an
\* error, which Load returns, and leaves RawUrl and Url of the configuration
\* as they were before the call.
C32_BadUrlLeavesConfig ==
  OverlaidBadUrl
  => /\ overlayEnvVars(ldIn, ldEnv).err # "nil"
     /\ ldErr = overlayEnvVars(ldIn, ldEnv).err
     /\ overlayEnvVars(ldIn, ldEnv).cfg.RawUrl = ldIn.RawUrl
     /\ overlayEnvVars(ldIn, ldEnv).cfg.Url = ldIn.Url

\* Load has failed on the variable "%zz" for a configuration whose yaml
\* names a server.
C32_Witness ==
  /\ OverlaidBadUrl
  /\ ldEnv.RawUrl.val = "%zz"
  /\ ldIn.RawUrl = "http://y"
  /\ ldErr = "url.Parse"

\* C33: whenever connect dials a new socket, the client has closed every
\* socket it opened earlier, so that at most one of its sockets is open.
C33_OneOpenSocket ==
  /\ [](Cardinality({ s \in 1..(nextSock - 1) : s \notin clientClosed }) <= 1)
  /\ [][conn' # conn
        => \A s \in 1..(nextSock - 1) : s \in clientClosed]_vars

\* C34: while the connected flag is set the socket handle is non-nil and the
\* client has not closed that socket, and when Close returns the flag is
\* cleared.
C34_FlagMeansOpenSocket ==
  /\ [](isConnected => (conn # 0 /\ conn \notin clientClosed))
  /\ [][closeCalls' = closeCalls + 1 => ~isConnected']_vars

\* C35: when the application-list request of a cache miss is answered with a
\* status other than 200, processMessage returns an error, the message is
\* dropped and control goes back to the read loop; the client does not crash.
C35_Non200DropsMessage ==
  [][(pc = "fetching" /\ lastFetch' = "status")
       => /\ pmRet' = "err"
          /\ pending' = NoMsg
          /\ messages' = messages
          /\ pc' = retPc
          /\ pc' # "panicked"]_vars

\* C36: a message the dispatcher takes while no configuration has been set
\* does not crash it: the process stays alive and the loop keeps running.
C36_UnconfiguredMessageHandled ==
  [][(pconfig = NilConfig /\ dpc = "select" /\ messages # <<>>
        /\ messages' = Tail(messages))
       => (Alive' /\ dpc' \in {"select", "handling"})]_vars

\* C37: a call of SafeString leaves the configuration it is called on as it
\* was, every entry of the Bots map included, and the string it returns
\* contains none of the configuration's tokens.
C37_SafeStringHasNoEffect ==
  [][sfCalls' = sfCalls + 1
       => /\ sfCfg' = sfCfg
          /\ \A t \in {sfCfg.ClientToken, sfCfg.DefaultBotToken}
                        \cup { sfCfg.Bots[n] : n \in DOMAIN sfCfg.Bots } :
               t # <<>> => ~Contains(sfOut', t)]_vars

\* C38: when Disable is called while the dispatcher loop is running, the
\* loop eventually exits (unless Enable is called again meanwhile), also
\* when closing the API client returned an error.
C38_DisableStopsLoop ==
  (lastCall = [op |-> "Disable", loops |-> 1])
    ~> (loops = 0 \/ lastCall.op = "Enable")

\* C39: after any sequence of Enable and Disable calls at most one
\* dispatcher loop runs, one runs whenever the most recent call was Enable,
\* and none runs before the first call.
C39_OneLoopWhenEnabled ==
  /\ loops <= 1
  /\ lastCall.op = "Enable" => loops = 1
  /\ lastCall.op = "none" => loops = 0

\* The text with every preserved link of the bodies explored, as rendered by
\* either formatter, replaced by the letter L.
OutsideLinks(text) ==
  LET l1 == <<"[", "t", "\\", "_", "]", "(", "w", "\\", "(", "x", ")">>
      l2 == <<"[", "t", "_", "]", "(", "w", "(", "x", ")">>
      l3 == <<"[", "t", "\n", "x", "]", "(", "w", ")">>
  IN ReplaceAllStr(ReplaceAllStr(ReplaceAllStr(text, l1, <<"L">>),
                                 l2, <<"L">>), l3, <<"L">>)

\* Only the body of the message is rendered.
BodyOnly ==
  /\ Formatted
  /\ fmIn.msg.Title = <<>>
  /\ fmIn.msg.Extras = <<>>
  /\ ~fmIn.opts.IncludePriority
  /\ ~fmIn.opts.IncludeTimestamp

\* C40: in the rendered body every reserved character outside a preserved
\* link is preceded by a backslash, also in plain text that stands on the
\* line of a link.
C40_ReservedEscapedOutsideLinks ==
  BodyOnly
  => LET rest == OutsideLinks(fmOut.text)
     IN \A i \in 1..Len(rest) :
          rest[i] \in ReservedChars => (i > 1 /\ rest[i - 1] = "\\")

====
